---------------------------- MODULE Spec2Model ----------------------------
(***************************************************************************)
(* A model of the search view of arxiv-troller                             *)
(* (src/django/papers/views.py): the query classifier, the filter          *)
(* resolver, keyword / title / single-paper / tag similarity retrieval     *)
(* and the result assembler, over the tables of src/django/papers/models.py*)
(*                                                                         *)
(* Texts (query strings, tag names, arXiv ids, titles) are sequences of    *)
(* one-character strings, so that strip(), the prefix regexes, int() and   *)
(* str() are computed the way the code computes them.                      *)
(*                                                                         *)
(* Scaling.  RESULTS_PER_PAGE (20 in the source), MAX_RESULTS (400) and    *)
(* the bit-vector length (2048) are modelled with small values so that a   *)
(* handful of papers fills a page and reaches the result ceiling; they are *)
(* bounds of the model.  Every formula is stated in terms of the names,    *)
(* never of the values.                                                    *)
(***************************************************************************)
EXTENDS Integers, Sequences, FiniteSets, TLC

\* ------------------------------------------------------------------ bounds
NumPapers == 5          \* Paper ids are drawn from 1..NumPapers
RESULTS_PER_PAGE == 3   \* views.py:31 (20), scaled
MAX_RESULTS == 6        \* views.py:32 (400), scaled
VecBits == 2            \* models.py:87 BitField(length=2048), scaled

\* An optional value is a set with at most one element: None is the empty
\* set, and a value x that is present is {x}.
None == {}
Some(x) == {x}
The(o) == CHOOSE x \in o : TRUE

Anon == "anon"          \* request.user of an unauthenticated request
Users == {"u1", "u2"}   \* authenticated users

PaperIds == 1..NumPapers

\* ------------------------------------------------------------------- texts
Min(a, b) == IF a < b THEN a ELSE b
Max(a, b) == IF a > b THEN a ELSE b

\* The characters str.strip() removes and the regex class \s matches.
Whitespace == {" ", "\t", "\n"}

RECURSIVE LStrip(_)
LStrip(s) == IF s # <<>> /\ Head(s) \in Whitespace THEN LStrip(Tail(s)) ELSE s

RECURSIVE RStrip(_)
RStrip(s) ==
    IF s # <<>> /\ s[Len(s)] \in Whitespace
    THEN RStrip(SubSeq(s, 1, Len(s) - 1))
    ELSE s

\* str.strip()
Strip(s) == LStrip(RStrip(s))

\* re.match(r"^<prefix>\s(.+)$", s): the prefix, one whitespace character,
\* then at least one character, none of them a newline ("." excludes it; a
\* "$" before a final newline cannot arise, the query is stripped first).
ReMatch(prefix, s) ==
    /\ Len(s) >= Len(prefix) + 2
    /\ SubSeq(s, 1, Len(prefix)) = prefix
    /\ s[Len(prefix) + 1] \in Whitespace
    /\ \A i \in (Len(prefix) + 2)..Len(s) : s[i] # "\n"

\* match.group(1) of a successful ReMatch
Group1(prefix, s) == SubSeq(s, Len(prefix) + 2, Len(s))

Digits == <<"0", "1", "2", "3", "4", "5", "6", "7", "8", "9">>
DigitSet == {Digits[i] : i \in 1..10}
DigitVal(c) == (CHOOSE i \in 1..10 : Digits[i] = c) - 1

\* int(s) succeeds on a non-empty run of decimal digits; anything else is
\* a ValueError (signs, blanks and underscores are not drawn by the model).
IsInt(s) == s # <<>> /\ \A i \in 1..Len(s) : s[i] \in DigitSet

RECURSIVE IntOf(_)
IntOf(s) ==
    IF s = <<>> THEN 0
    ELSE 10 * IntOf(SubSeq(s, 1, Len(s) - 1)) + DigitVal(s[Len(s)])

\* str(n) for a non-negative integer
RECURSIVE StrOf(_)
StrOf(n) == IF n < 10 THEN <<Digits[n + 1]>> ELSE StrOf(n \div 10) \o <<Digits[(n % 10) + 1]>>

\* str.lower() on the letters the model draws
Lower(c) == CASE c = "G" -> "g" [] c = "A" -> "a" [] OTHER -> c
LowerStr(s) == [i \in 1..Len(s) |-> Lower(s[i])]

\* needle in haystack (substring)
Contains(hay, needle) ==
    \E i \in 1..(Len(hay) - Len(needle) + 1) :
        SubSeq(hay, i, i + Len(needle) - 1) = needle

\* title__icontains
IContains(hay, needle) == Contains(LowerStr(hay), LowerStr(needle))

\* The blank-separated words of a text, lower-cased: the lexemes of the
\* datastore's text-search vector (stemming and stop words left out).
RECURSIVE Words(_)
Words(s) ==
    LET t == LStrip(s)
        n == IF \E i \in 1..Len(t) : t[i] \in Whitespace
             THEN (CHOOSE i \in 1..Len(t) :
                      t[i] \in Whitespace /\ \A j \in 1..(i - 1) : t[j] \notin Whitespace) - 1
             ELSE Len(t)
    IN IF t = <<>> THEN {}
       ELSE {LowerStr(SubSeq(t, 1, n))} \cup Words(SubSeq(t, n + 1, Len(t)))


\* ------------------------------------------------------------------- state
VARIABLES
    Paper,          \* models.Paper: id -> [arxiv_id, created, title, abstract, categories]
    Tag,            \* models.Tag: id -> [user, name]
    TaggedPaper,    \* models.TaggedPaper: set of [tag, paper]
    Embedding,      \* EMBEDDING_MODEL (EmbeddingVoyageBit2048): paper id -> vector
    EmbeddingVoyageHalf2048,    \* models.EmbeddingVoyageHalf2048: paper id -> vector
    EmbeddingVoyageHalf256,     \* models.EmbeddingVoyageHalf256: paper id -> vector
    now,            \* timezone.now(), in days
    pc,             \* position of the request handler
    request,        \* the request being served
    context,        \* search()'s context dictionary
    local,          \* the local variables of tag_search()
    nn_queries,     \* ghost: the nearest-neighbour queries the request issued, in order
    response,       \* what search() returns
    shown           \* the client's page: the result lists received for its query, in order

db == <<Paper, Tag, TaggedPaper, Embedding, EmbeddingVoyageHalf2048, EmbeddingVoyageHalf256, now>>
vars == <<Paper, Tag, TaggedPaper, Embedding, EmbeddingVoyageHalf2048, EmbeddingVoyageHalf256,
          now, pc, request, context, local, nn_queries, response, shown>>

\* A bit vector is the set of its positions holding 1.
Vectors == SUBSET (1..VecBits)

\* DISTANCE_FUNCTION = HammingDistance (views.py:27-28)
DISTANCE_FUNCTION(v, w) == Cardinality((v \ w) \cup (w \ v))

\* The three rows add_voyage_embeddings derives from a paper's embedding (a
\* vector of VecBits numbers): the vector itself, its first HalfDims
\* components divided by their norm (kept as the components and the square
\* of the norm), and its sign bits.
HalfDims == 1
Half2048Row(embedding) == embedding
Half256Row(embedding) ==
    LET embedding_256 == SubSeq(embedding, 1, HalfDims)
        Squares[i \in 0..HalfDims] ==
            IF i = 0 THEN 0 ELSE Squares[i - 1] + embedding_256[i] * embedding_256[i]
    IN [vector |-> embedding_256, norm2 |-> Squares[HalfDims]]
Bit2048Row(embedding) == {i \in 1..VecBits : embedding[i] > 0}

\* An embedding with the sign bits v
Full(v) == [i \in 1..VecBits |-> IF i \in v THEN 1 ELSE 0 - 1]

\* The job has filled the three tables for the same papers
VoyageTables ==
    /\ EmbeddingVoyageHalf2048 = [p \in DOMAIN Embedding |-> Half2048Row(Full(Embedding[p]))]
    /\ EmbeddingVoyageHalf256 = [p \in DOMAIN Embedding |-> Half256Row(Full(Embedding[p]))]

\* ---------------------------------------------------------- filter resolver
date_cutoffs ==
    [d \in {"1day", "3day", "1week", "1month", "3months", "6months", "1year", "2years"} |->
        CASE d = "1day" -> 1
          [] d = "3day" -> 3
          [] d = "1week" -> 7
          [] d = "1month" -> 30
          [] d = "3months" -> 90
          [] d = "6months" -> 180
          [] d = "1year" -> 365
          [] d = "2years" -> 730]

\* Mutant of get_date_cutoff: a token the table lacks falls back to one week
get_date_cutoff_week(date_filter) ==
    IF date_filter = "all" THEN None
    ELSE IF date_filter \in DOMAIN date_cutoffs THEN Some(now - date_cutoffs[date_filter])
    ELSE Some(now - date_cutoffs["1week"])

\* get_date_cutoff: None for "all" and for every token the table lacks
get_date_cutoff(date_filter) ==
    IF date_filter = "all" THEN None
    ELSE IF date_filter \in DOMAIN date_cutoffs THEN Some(now - date_cutoffs[date_filter])
    ELSE None

\* The papers of a tag: TaggedPaper.objects.filter(tag=tag) paper ids
TagMembers(tag) == {tp.paper : tp \in {t \in TaggedPaper : t.tag = tag}}

\* Mutant of ExcludedIds: the source paper is not added
ExcludedIdsNoSource(ctx, current_paper) ==
    ctx.exclude_ids
      \cup (IF ctx.current_tag # None THEN TagMembers(The(ctx.current_tag)) ELSE {})

\* get_valid_papers adds to the set object held in context["exclude_ids"]:
\* this is that set after the call (current_paper is optional).
ExcludedIds(ctx, current_paper) ==
    ctx.exclude_ids
      \cup (IF ctx.current_tag # None THEN TagMembers(The(ctx.current_tag)) ELSE {})
      \cup current_paper

\* get_valid_papers: the (lazy) queryset, as the filter values it was built with
get_valid_papers(ctx, current_paper) ==
    [excluded |-> ExcludedIds(ctx, current_paper),
     date_cutoff |-> get_date_cutoff(ctx.date_filter),
     category |-> ctx.category_filter]

\* Mutant of Rows: exclude(id__in=excluded_ids) is missing
RowsNoExclude(query) ==
    {p \in DOMAIN Paper :
        /\ query.date_cutoff # None => Paper[p].created >= The(query.date_cutoff)
        /\ query.category # "" => query.category \in Paper[p].categories}

\* The rows a queryset of get_valid_papers selects when it is evaluated
Rows(query) ==
    {p \in DOMAIN Paper :
        /\ p \notin query.excluded
        /\ query.date_cutoff # None => Paper[p].created >= The(query.date_cutoff)
        /\ query.category # "" => query.category \in Paper[p].categories}

\* ------------------------------------------------------- ordered retrieval
\* order_by(key ascending): every arrangement the datastore may return,
\* rows of equal key in any order.
\* Keys are pairs, compared lexicographically.
KeyLeq(a, b) == a[1] < b[1] \/ (a[1] = b[1] /\ a[2] <= b[2])

RECURSIVE OrderBy(_, _)
OrderBy(S, key) ==
    IF S = {} THEN {<<>>}
    ELSE LET first == {x \in S : \A y \in S : KeyLeq(key[x], key[y])}
         IN UNION {{<<x>> \o t : t \in OrderBy(S \ {x}, key)} : x \in first}

\* queryset[:n]
Limit(seq, n) == SubSeq(seq, 1, Min(n, Len(seq)))

\* Mutant of get_similar_embeddings: a paper without an embedding is
\* searched with the zero vector
get_similar_embeddings_zero(paper, valid_paper_query, num_results) ==
    LET cands == Rows(valid_paper_query) \cap DOMAIN Embedding
        vector == IF paper \in DOMAIN Embedding THEN Embedding[paper] ELSE {}
        distance == [p \in cands |-> <<DISTANCE_FUNCTION(Embedding[p], vector), 0>>]
    IN {Limit(f, num_results) : f \in OrderBy(cands, distance)}

\* Mutant of get_similar_embeddings: order_by("-distance")
get_similar_embeddings_desc(paper, valid_paper_query, num_results) ==
    IF paper \notin DOMAIN Embedding THEN {<<>>}
    ELSE LET cands == Rows(valid_paper_query) \cap DOMAIN Embedding
             distance == [p \in cands |->
                             <<0 - DISTANCE_FUNCTION(Embedding[p], Embedding[paper]), 0>>]
         IN {Limit(f, num_results) : f \in OrderBy(cands, distance)}

\* get_similar_embeddings: the result lists the nearest-neighbour query may give
get_similar_embeddings(paper, valid_paper_query, num_results) ==
    IF paper \notin DOMAIN Embedding THEN {<<>>}
    ELSE LET cands == Rows(valid_paper_query) \cap DOMAIN Embedding
             distance == [p \in cands |->
                             <<DISTANCE_FUNCTION(Embedding[p], Embedding[paper]), 0>>]
         IN {Limit(f, num_results) : f \in OrderBy(cands, distance)}

\* The ghost record of get_similar_embeddings's query and its result (none
\* without an embedding: the function returns before it queries)
QueryLog(paper, num_results, similars) ==
    IF paper \in DOMAIN Embedding
    THEN <<[source |-> paper, depth |-> num_results, similars |-> similars]>>
    ELSE <<>>

\* ---------------------------------------------------------- query classifier
TagPrefix == <<"t", "a", "g", ":">>
PaperPrefix == <<"p", "a", "p", "e", "r", ":">>
TitlePrefix == <<"t", "i", "t", "l", "e", ":">>

\* Python truthiness of an optional text: neither None nor ""
Truthy(o) == o # None /\ The(o) # <<>>

\* Python's "a or b"
Or(a, b) == IF Truthy(a) THEN a ELSE b

\* Mutant of TagGet: the lookup is by name alone (the first such tag)
TagGetAnyUser(user, name) ==
    LET found == {t \in DOMAIN Tag : Tag[t].name = name}
    IN IF found = {} THEN {} ELSE {CHOOSE t \in found : \A u \in found : t <= u}

\* Tag.objects.get(user=user, name=name): the matching rows (at most one,
\* unique_together); none is Tag.DoesNotExist
TagGet(user, name) == {t \in DOMAIN Tag : Tag[t].user = user /\ Tag[t].name = name}

\* Paper.objects.get(arxiv_id=arxiv_id): the matching rows (arxiv_id is unique)
PaperGetByArxivId(arxiv_id) == {p \in DOMAIN Paper : Paper[p].arxiv_id = arxiv_id}

\* Paper.objects.get(id=int(paper_id)): no row also when int() raises ValueError
PaperGetById(paper_id) ==
    IF IsInt(paper_id) THEN {p \in DOMAIN Paper : p = IntOf(paper_id)} ELSE {}

TagDoesNotExist(tag_name) == [error |-> "Tag does not exist", arg |-> tag_name]
LoginRequired == [error |-> "You must be logged in to search by tag", arg |-> <<>>]
PaperDoesNotExist(arxiv_id) == [error |-> "Paper with arXiv ID does not exist", arg |-> arxiv_id]

\* search(), the parse of the raw query
Classify(user, raw_query) ==
    LET base == [parsed_single_paper_id |-> None,
                 parsed_search_all_tag |-> None,
                 parsed_tag_for_search |-> None,
                 title_query |-> None,
                 actual_query |-> raw_query,
                 query_error |-> None]
    IN IF raw_query = <<>> THEN base
       ELSE IF ReMatch(TagPrefix, raw_query) THEN
            LET tag_name == Group1(TagPrefix, raw_query)
            IN IF user # Anon
               THEN IF TagGet(user, tag_name) # {}
                    THEN [base EXCEPT !.parsed_tag_for_search = TagGet(user, tag_name),
                                      !.parsed_search_all_tag = Some(<<"1">>),
                                      !.actual_query = <<>>]
                    ELSE [base EXCEPT !.query_error = Some(TagDoesNotExist(tag_name))]
               ELSE [base EXCEPT !.query_error = Some(LoginRequired)]
       ELSE IF ReMatch(PaperPrefix, raw_query) THEN
            LET arxiv_id == Strip(Group1(PaperPrefix, raw_query))
            IN IF PaperGetByArxivId(arxiv_id) # {}
               THEN [base EXCEPT
                       !.parsed_single_paper_id = Some(StrOf(The(PaperGetByArxivId(arxiv_id)))),
                       !.actual_query = <<>>]
               ELSE [base EXCEPT !.query_error = Some(PaperDoesNotExist(arxiv_id))]
       ELSE IF ReMatch(TitlePrefix, raw_query) THEN
            [base EXCEPT !.title_query = Some(Strip(Group1(TitlePrefix, raw_query)))]
       ELSE base

\* ------------------------------------------------------ retrieval strategies
\* What a strategy hands back to search(): the papers, the search context's
\* type, context["exclude_ids"] as get_valid_papers left it, the queries it
\* issued, and the HTTP status (404 and 500 are raised, nothing is returned).
Returned(papers, type, exclude_ids, queries) ==
    [status |-> 200, papers |-> papers, type |-> type, exclude_ids |-> exclude_ids,
     queries |-> queries]

Raised(status) ==
    [status |-> status, papers |-> <<>>, type |-> "raised", exclude_ids |-> {},
     queries |-> <<>>]

\* title_search
title_search(ctx) ==
    LET query == The(ctx.title_query)
        valid_paper_query == get_valid_papers(ctx, None)
        papers == {p \in Rows(valid_paper_query) : IContains(Paper[p].title, query)}
        key == [p \in papers |-> <<0 - Paper[p].created, 0>>]
    IN {Returned(Limit(f, RESULTS_PER_PAGE), "title", valid_paper_query.excluded, <<>>) :
          f \in OrderBy(papers, key)}

\* SearchRank of the text-search vector (migration 0022: title weight A,
\* abstract weight B), reduced to: a word of the title counts twice
SearchRank(p, query) ==
    2 * Cardinality(Words(query) \cap Words(Paper[p].title))
      + Cardinality(Words(query) \cap Words(Paper[p].abstract))

\* keyword_search
keyword_search(ctx) ==
    LET query == ctx.query
        valid_paper_query == get_valid_papers(ctx, None)
        papers == {p \in Rows(valid_paper_query) :
                      /\ Words(query) # {}
                      /\ Words(query) \subseteq Words(Paper[p].title) \cup Words(Paper[p].abstract)}
        key == [p \in papers |-> <<0 - SearchRank(p, query), 0 - Paper[p].created>>]
    IN {Returned(Limit(f, RESULTS_PER_PAGE), "keyword", valid_paper_query.excluded, <<>>) :
          f \in OrderBy(papers, key)}

\* paper_search
paper_search(ctx) ==
    LET paper_id == The(ctx.single_paper_id)
        paper == IF PaperGetById(paper_id) # {} THEN PaperGetById(paper_id)
                 ELSE PaperGetByArxivId(paper_id)
    IN IF paper = {}
       \* get_object_or_404(Paper, id=paper_id): Http404, or the ValueError of
       \* a filter on the integer field id with a text that is no number
       THEN {Raised(IF IsInt(paper_id) THEN 404 ELSE 500)}
       ELSE LET valid_paper_query == get_valid_papers(ctx, paper)
            IN {Returned(papers, "single_paper", valid_paper_query.excluded,
                         QueryLog(The(paper), RESULTS_PER_PAGE, papers)) :
                  papers \in get_similar_embeddings(The(paper), valid_paper_query,
                                                    RESULTS_PER_PAGE)}

\* ------------------------------------------------------------- tag_search
\* Mutant of ResPerSource: the "+ 1" is missing
ResPerSourceNoExtra(total_needed, n) == Max(1, total_needed \div Max(1, n))

\* res_per_source = max(1, total_needed // max(1, len(tagged_papers))) + 1
ResPerSource(total_needed, n) == Max(1, total_needed \div Max(1, n)) + 1

\* random.shuffle(tagged_papers): any order of the tag's papers
Shuffles(S) == OrderBy(S, [p \in S |-> <<0, 0>>])

\* Mutant of NewSimilars: the "not in seen_papers" test is missing
NewSimilarsNoSeen(similars, seen_papers) == similars

\* The inner loop of tag_search: the papers of similars not seen before, each once
RECURSIVE NewSimilars(_, _)
NewSimilars(similars, seen_papers) ==
    IF similars = <<>> THEN <<>>
    ELSE IF Head(similars) \notin seen_papers
         THEN <<Head(similars)>> \o NewSimilars(Tail(similars), seen_papers \cup {Head(similars)})
         ELSE NewSimilars(Tail(similars), seen_papers)

Range(seq) == {seq[i] : i \in 1..Len(seq)}

\* Mutant of Break: the loop stops as soon as one source gave a new paper
BreakOnFirst(count, total_needed) == count >= 1

\* "if count >= total_needed: break"
Break(count, total_needed) == count >= total_needed

\* One pass "for result_group in results: if len(result_group) > i" (i from 0)
RECURSIVE Round(_, _)
Round(results, i) ==
    IF results = <<>> THEN <<>>
    ELSE (IF Len(Head(results)) > i THEN <<Head(results)[i + 1]>> ELSE <<>>)
           \o Round(Tail(results), i)

\* "for i in range(res_per_source)", from round i on
RECURSIVE InterleaveFrom(_, _, _)
InterleaveFrom(results, i, res_per_source) ==
    IF i >= res_per_source THEN <<>>
    ELSE Round(results, i) \o InterleaveFrom(results, i + 1, res_per_source)

\* Mutant of Interleave: the outer loop stops one round early
InterleaveShort(results, res_per_source) == InterleaveFrom(results, 0, res_per_source - 1)

\* The final loops of tag_search
Interleave(results, res_per_source) == InterleaveFrom(results, 0, res_per_source)

NoQuery == [excluded |-> {}, date_cutoff |-> None, category |-> ""]

NoLocal ==
    [tagged_papers |-> <<>>, valid_paper_query |-> NoQuery, res_per_source |-> 0,
     results |-> <<>>, seen_papers |-> {}, count |-> 0, i |-> 0]

\* tag_search up to its loop: the sources in shuffled order and the locals
TagSearchLocals(ctx) ==
    LET members == TagMembers(The(ctx.parsed_tag_for_search))
    IN {[tagged_papers |-> order,
         valid_paper_query |-> get_valid_papers(ctx, None),
         res_per_source |-> ResPerSource(RESULTS_PER_PAGE, Len(order)),
         results |-> <<>>, seen_papers |-> {}, count |-> 0, i |-> 0] :
          order \in Shuffles(members)}

\* ------------------------------------------------------- result assembler
\* has_more = bool(len(papers)) and len(exclude_ids) + RESULTS_PER_PAGE < MAX_RESULTS
HasMore(papers, exclude_ids) ==
    Len(papers) > 0 /\ Cardinality(exclude_ids) + RESULTS_PER_PAGE < MAX_RESULTS

\* Mutant of PaperTags: the filter tag__user=request.user is missing
PaperTagsAnyUser(user, papers) ==
    [p \in Range(papers) |->
        IF user = Anon THEN {}
        ELSE {Tag[tp.tag].name : tp \in {x \in TaggedPaper : x.paper = p}}]

\* paper_tags: the names of the user's tags holding each returned paper
PaperTags(user, papers) ==
    [p \in Range(papers) |->
        IF user = Anon THEN {}
        ELSE {Tag[tp.tag].name :
                 tp \in {x \in TaggedPaper : x.paper = p /\ Tag[x.tag].user = user}}]

NoResponse ==
    [status |-> 0, papers |-> <<>>, has_more |-> FALSE, query_error |-> None,
     search_context |-> "none", tags |-> <<>>]

\* search() from "has_more =" to its return
Assemble(user, papers, type, exclude_ids, query_error) ==
    [status |-> 200, papers |-> papers, has_more |-> HasMore(papers, exclude_ids),
     query_error |-> query_error, search_context |-> type,
     tags |-> PaperTags(user, papers)]

\* --------------------------------------------------------------- search()
\* The context dictionary as search() builds it, before the drawer tag and
\* the default date filter are set
Context(r) ==
    LET raw_query == Strip(r.q)
        c == Classify(r.user, raw_query)
    IN [user_tags |-> IF r.user # Anon THEN {t \in DOMAIN Tag : Tag[t].user = r.user} ELSE {},
        current_tag |-> None,
        query |-> raw_query,
        date_filter |-> r.date_filter,
        category_filter |-> r.category,
        single_paper_id |-> Or(c.parsed_single_paper_id, r.single_paper),
        search_all_tag |-> Or(c.parsed_search_all_tag, r.search_all),
        title_query |-> c.title_query,
        exclude_ids |-> IF r.ajax THEN r.exclude_ids ELSE {},
        query_error |-> c.query_error,
        parsed_tag_for_search |-> c.parsed_tag_for_search,
        actual_query |-> c.actual_query]

NoContext ==
    [user_tags |-> {}, current_tag |-> None, query |-> <<>>, date_filter |-> "",
     category_filter |-> "", single_paper_id |-> None, search_all_tag |-> None,
     title_query |-> None, exclude_ids |-> {}, query_error |-> None,
     parsed_tag_for_search |-> None, actual_query |-> <<>>]

\* get_object_or_404(Tag, id=current_tag_id, user=request.user) fails
DrawerTagMissing(r) ==
    /\ r.tag # None
    /\ r.user # Anon
    /\ ~(The(r.tag) \in DOMAIN Tag /\ Tag[The(r.tag)].user = r.user)

\* The context with the drawer tag and the default date filter set
FullContext(r) ==
    [Context(r) EXCEPT
        !.current_tag = IF r.tag # None /\ r.user # Anon THEN r.tag ELSE None,
        !.date_filter = IF r.date_filter = "" THEN "1week" ELSE r.date_filter]

\* Mutant of Strategy: the query error is tested after the similarity strategies
StrategyErrorLast(ctx) ==
    IF Truthy(ctx.single_paper_id) THEN "paper_search"
    ELSE IF Truthy(ctx.search_all_tag) /\ ctx.parsed_tag_for_search # None THEN "tag_search"
    ELSE IF ctx.query_error # None THEN "error"
    ELSE IF Truthy(ctx.title_query) THEN "title_search"
    ELSE IF ctx.actual_query # <<>> THEN "keyword_search"
    ELSE "none"

\* The strategy search() selects
Strategy(ctx) ==
    IF ctx.query_error # None THEN "error"
    ELSE IF Truthy(ctx.single_paper_id) THEN "paper_search"
    ELSE IF Truthy(ctx.search_all_tag) /\ ctx.parsed_tag_for_search # None THEN "tag_search"
    ELSE IF Truthy(ctx.title_query) THEN "title_search"
    ELSE IF ctx.actual_query # <<>> THEN "keyword_search"
    ELSE "none"

\* What the strategies that run in one step hand back
Outcomes(ctx) ==
    CASE Strategy(ctx) = "paper_search" -> paper_search(ctx)
      [] Strategy(ctx) = "title_search" -> title_search(ctx)
      [] Strategy(ctx) = "keyword_search" -> keyword_search(ctx)
      [] Strategy(ctx) = "tag_search" -> {Returned(<<>>, "tag_all", ctx.exclude_ids, <<>>)}
      [] OTHER -> {Returned(<<>>, "none", ctx.exclude_ids, <<>>)}

\* search() ends: the response, or the fault raised
Respond(r, ctx, o) ==
    /\ pc' = "done"
    /\ context' = [ctx EXCEPT !.exclude_ids = IF o.status = 200 THEN o.exclude_ids ELSE @]
    /\ nn_queries' = o.queries
    /\ response' = IF o.status = 200
                   THEN Assemble(r.user, o.papers, o.type, o.exclude_ids, ctx.query_error)
                   ELSE [NoResponse EXCEPT !.status = o.status]
    /\ shown' = IF o.status = 200 THEN Append(shown, o.papers) ELSE shown

\* search(request), up to its return or up to the loop of tag_search; a
\* request is served when no other is being served
search(r) ==
    /\ pc \in {"idle", "done"}
    /\ request' = r
    /\ UNCHANGED db
    /\ IF DrawerTagMissing(r)
       THEN /\ Respond(r, Context(r), Raised(404))
            /\ UNCHANGED local
       ELSE LET ctx == FullContext(r)
            IN IF Strategy(ctx) = "tag_search"
                  /\ TagMembers(The(ctx.parsed_tag_for_search)) # {}
               THEN \E l \in TagSearchLocals(ctx) :
                      /\ local' = l
                      /\ context' = [ctx EXCEPT !.exclude_ids = l.valid_paper_query.excluded]
                      /\ pc' = "tag_search"
                      /\ nn_queries' = <<>>
                      /\ UNCHANGED <<response, shown>>
               ELSE \E o \in Outcomes(ctx) :
                      /\ Respond(r, ctx, o)
                      /\ UNCHANGED local

\* Mutant of tag_search_loop: the widened depth is not kept for the next
\* iterations
tag_search_loop_forget(late) ==
    /\ pc = "tag_search"
    /\ LET total_needed == RESULTS_PER_PAGE
           paper == local.tagged_papers[local.i + 1]
           res_per_source == IF late THEN total_needed ELSE local.res_per_source
       IN \E similars \in get_similar_embeddings(paper, local.valid_paper_query, res_per_source) :
            LET new_similars == NewSimilars(similars, local.seen_papers)
                count == local.count + Len(new_similars)
            IN /\ local' = [local EXCEPT
                              !.res_per_source = local.res_per_source,
                              !.results = IF new_similars # <<>> THEN Append(@, new_similars) ELSE @,
                              !.seen_papers = @ \cup Range(new_similars),
                              !.count = count,
                              !.i = @ + 1]
               /\ nn_queries' = nn_queries \o QueryLog(paper, res_per_source, similars)
               /\ pc' = IF Break(count, total_needed) \/ local.i + 1 = Len(local.tagged_papers)
                        THEN "tag_merge" ELSE "tag_search"
    /\ UNCHANGED <<db, request, context, response, shown>>

\* One iteration of "for paper in tagged_papers"; late is the outcome of
\* "time.time() - start_time > 2"
tag_search_loop(late) ==
    /\ pc = "tag_search"
    /\ LET total_needed == RESULTS_PER_PAGE
           paper == local.tagged_papers[local.i + 1]
           res_per_source == IF late THEN total_needed ELSE local.res_per_source
       IN \E similars \in get_similar_embeddings(paper, local.valid_paper_query, res_per_source) :
            LET new_similars == NewSimilars(similars, local.seen_papers)
                count == local.count + Len(new_similars)
            IN /\ local' = [local EXCEPT
                              !.res_per_source = res_per_source,
                              !.results = IF new_similars # <<>> THEN Append(@, new_similars) ELSE @,
                              !.seen_papers = @ \cup Range(new_similars),
                              !.count = count,
                              !.i = @ + 1]
               /\ nn_queries' = nn_queries \o QueryLog(paper, res_per_source, similars)
               /\ pc' = IF Break(count, total_needed) \/ local.i + 1 = Len(local.tagged_papers)
                        THEN "tag_merge" ELSE "tag_search"
    /\ UNCHANGED <<db, request, context, response, shown>>

\* tag_search after its loop, and the rest of search()
tag_search_return ==
    /\ pc = "tag_merge"
    /\ LET papers == Interleave(local.results, local.res_per_source)
       IN /\ response' = Assemble(request.user, papers, "tag_all", context.exclude_ids,
                                  context.query_error)
          /\ shown' = Append(shown, papers)
    /\ pc' = "done"
    /\ UNCHANGED <<db, request, context, local, nn_queries>>

\* ------------------------------------------------------------- the corpus
NameX == <<"x">>
NameY == <<"y">>
NameZ == <<"z">>

\* arXiv ids are no decimal integers: "0.<id>"
ArxivId(p) == <<"0", ".">> \o StrOf(p)

Idle ==
    /\ now = 0
    /\ pc = "idle"
    /\ request = [user |-> Anon, ajax |-> FALSE, q |-> <<>>, date_filter |-> "",
                  category |-> "", tag |-> None, single_paper |-> None,
                  search_all |-> None, exclude_ids |-> {}]
    /\ context = NoContext
    /\ local = NoLocal
    /\ nn_queries = <<>>
    /\ response = NoResponse
    /\ shown = <<>>

\* A corpus with papers of several ages, categories and texts, one of them
\* without an embedding; u1 owns the tags 1 ("x") and 4 ("z"), u2 owns 2
\* ("x") and 3 ("y").
Titles == <<<<"G", "a">>, <<"b">>, <<"g", "a", " ", "b">>, <<"G", "a">>, <<"b">>>>
Abstracts == <<<<"b">>, <<"c">>, <<"c">>, <<"c">>, <<"g", "a">>>>
Ages == <<0, 0, 2, 800, 0>>
Categories == <<{"cs"}, {"cs", "math"}, {"math"}, {"cs"}, {}>>
Vector == <<{}, {1}, {1}, {1, 2}>>

InitCorpus ==
    /\ Paper = [p \in PaperIds |->
                  [arxiv_id |-> ArxivId(p),
                   created |-> IF p <= Len(Ages) THEN 0 - Ages[p] ELSE 0,
                   title |-> IF p <= Len(Titles) THEN Titles[p] ELSE <<"b">>,
                   abstract |-> IF p <= Len(Abstracts) THEN Abstracts[p] ELSE <<"c">>,
                   categories |-> IF p <= Len(Categories) THEN Categories[p] ELSE {"cs"}]]
    /\ Embedding = [p \in 1..Len(Vector) |-> Vector[p]]
    /\ VoyageTables
    /\ Tag = <<[user |-> "u1", name |-> NameX], [user |-> "u2", name |-> NameX],
               [user |-> "u2", name |-> NameY], [user |-> "u1", name |-> NameZ]>>
    /\ \E members \in {{}, {1, 5}, {1, 2}, {2, 3, 4}} :
         TaggedPaper = {[tag |-> 1, paper |-> p] : p \in members}
                         \cup {[tag |-> 2, paper |-> 3], [tag |-> 3, paper |-> 4],
                               [tag |-> 4, paper |-> 2]}

Text(prefix, rest) == prefix \o <<" ">> \o rest

\* Besides the well-formed queries: a tab after the colon, two blanks after
\* the colon, and no blank after the colon
Queries ==
    {<<>>, Text(TagPrefix, NameX), Text(TagPrefix, NameY), Text(PaperPrefix, ArxivId(1)),
     Text(PaperPrefix, <<"2">>), Text(PaperPrefix, ArxivId(9)), Text(TitlePrefix, <<"g", "a">>),
     <<"b">>,
     TagPrefix \o <<"\t">> \o NameX,
     Text(TitlePrefix, <<" ", "g", "a">>),
     PaperPrefix \o ArxivId(1)}

Requests ==
    [user : {"u1", Anon},
     ajax : {FALSE},
     q : Queries,
     date_filter : {"", "1day", "all", "bogus"},
     category : {"", "cs"},
     tag : {None, Some(4), Some(2)},
     single_paper : {None, Some(<<"2">>), Some(ArxivId(5)), Some(<<"9">>), Some(<<"z", "z">>)},
     search_all : {None, Some(<<"1">>)},
     exclude_ids : {{}}]
    \cup
    [user : {"u1", Anon},
     ajax : {TRUE},
     q : Queries,
     date_filter : {"", "1day", "all", "bogus"},
     category : {"", "cs"},
     tag : {None, Some(4), Some(2)},
     single_paper : {None, Some(<<"2">>), Some(ArxivId(5)), Some(<<"9">>), Some(<<"z", "z">>)},
     search_all : {None, Some(<<"1">>)},
     exclude_ids : {{}, {3}, {1, 2, 3, 4}}]

Init == InitCorpus /\ Idle

\* A request of the set reqs arrives and search() serves it
Receive(reqs) == pc = "idle" /\ \E r \in reqs : search(r)

Next ==
    \/ Receive(Requests)
    \/ \E late \in BOOLEAN : tag_search_loop(late)
    \/ tag_search_return

Spec == Init /\ [][Next]_vars

\* ------------------------------------------ corpora for tag similarity search
\* The vectors 0..0, 10..0, 110..0, ..., 1..1, whose distances are those of
\* points on a line, and 0..01 off that line (with two bits: every vector).
FreeVectors == {1..j : j \in 0..VecBits} \cup {{VecBits}}

\* Every paper is recent and of category "cs"; the papers 1 and 2 may lack an
\* embedding, the vectors of the papers 2, 3 and 4 are free, the later papers
\* lie at 1..1 and 0..0; u1's tag 1 ("x") holds the first one, two
\* or three papers, u1's tag 2 ("z") holds the last paper.
InitTagCorpus ==
    /\ Paper = [p \in PaperIds |->
                  [arxiv_id |-> ArxivId(p), created |-> 0, title |-> <<"b">>,
                   abstract |-> <<"c">>, categories |-> {"cs"}]]
    /\ \E without \in SUBSET {1, 2} :
         Embedding \in [PaperIds \ without -> FreeVectors]
    /\ 1 \in DOMAIN Embedding => Embedding[1] = {}
    /\ \A p \in PaperIds \ (1..4) : Embedding[p] = IF p % 2 = 1 THEN 1..VecBits ELSE {}
    /\ VoyageTables
    /\ Tag = <<[user |-> "u1", name |-> NameX], [user |-> "u1", name |-> NameZ]>>
    /\ \E n \in 1..3 :
         TaggedPaper = {[tag |-> 1, paper |-> p] : p \in 1..n}
                         \cup {[tag |-> 2, paper |-> NumPapers]}

TagRequests ==
    [user : {"u1"},
     ajax : {FALSE},
     q : {Text(TagPrefix, NameX)},
     date_filter : {""},
     category : {""},
     tag : {None, Some(1), Some(2)},
     single_paper : {None},
     search_all : {None},
     exclude_ids : {{}}]
    \cup
    [user : {"u1"},
     ajax : {TRUE},
     q : {Text(TagPrefix, NameX)},
     date_filter : {""},
     category : {""},
     tag : {None},
     single_paper : {None},
     search_all : {None},
     exclude_ids : {{4}}]

InitTag == InitTagCorpus /\ Idle

NextTag ==
    \/ Receive(TagRequests)
    \/ \E late \in BOOLEAN : tag_search_loop(late)
    \/ tag_search_return

SpecTag == InitTag /\ [][NextTag]_vars

\* ======================================================= claims, SpecTag
TagSearchDone == pc = "done" /\ response.search_context = "tag_all"

\* The tag whose papers are the sources
SearchedTag == The(context.parsed_tag_for_search)

\* The sources for which a nearest-neighbour query was issued
Queried == {nn_queries[i].source : i \in 1..Len(nn_queries)}

\* The fetch depth k of a search over n sources
Depth == ResPerSource(RESULTS_PER_PAGE, Len(local.tagged_papers))

\* C1: the result sequence of multi-source (tag) similarity retrieval
\* contains no paper id more than once.
C1_NoDuplicates ==
    TagSearchDone =>
        \A i, j \in 1..Len(response.papers) :
            i # j => response.papers[i] # response.papers[j]

\* C1 witness: a finished tag search in which two sources had a neighbour in
\* common and at least two papers were returned.
C1_Witness ==
    /\ TagSearchDone
    /\ Len(response.papers) >= 2
    /\ \E i, j \in 1..Len(nn_queries) :
         i < j /\ Range(nn_queries[i].similars) \cap Range(nn_queries[j].similars) # {}

\* A sequence without the later occurrences of its elements
RECURSIVE FirstOccurrences(_)
FirstOccurrences(seq) ==
    IF seq = <<>> THEN <<>>
    ELSE LET front == FirstOccurrences(SubSeq(seq, 1, Len(seq) - 1))
         IN IF seq[Len(seq)] \in Range(front) THEN front ELSE Append(front, seq[Len(seq)])

\* Every choice of one top-depth neighbour list per source, in source order
RECURSIVE ListChoices(_, _, _)
ListChoices(sources, query, depth) ==
    IF sources = <<>> THEN {<<>>}
    ELSE {<<l>> \o rest : l \in get_similar_embeddings(Head(sources), query, depth),
                          rest \in ListChoices(Tail(sources), query, depth)}

\* C2: the multi-source output equals the round-robin interleave of the
\* per-source top-k neighbour lists (round 0 of every source in source
\* order, then round 1, ...) with every later duplicate removed.  Stated for
\* the searches that queried every source with depth k (no early end of the
\* loop, time budget not exceeded).
C2_InterleaveThenDedup ==
    (/\ TagSearchDone
     /\ local.tagged_papers # <<>>
     /\ local.i = Len(local.tagged_papers)
     /\ local.res_per_source = Depth)
    => response.papers \in
         {FirstOccurrences(Interleave(lists, Depth)) :
             lists \in ListChoices(local.tagged_papers, local.valid_paper_query, Depth)}

\* C3: the list returned by multi-source retrieval is truncated to the page
\* size: it never has more than N entries, N + 1 with an extra has-more row
\* (the weaker bound is the one stated here).
C3_PageSizeRespected ==
    TagSearchDone => Len(response.papers) <= RESULTS_PER_PAGE + 1

\* C4 (as claimed): every source paper that has an embedding has its nearest
\* neighbours fetched.  Stated for the searches whose time budget was not
\* exceeded.
C4_EverySourceQueried ==
    TagSearchDone /\ local.res_per_source = Depth =>
        \A t \in TagMembers(SearchedTag) : t \in DOMAIN Embedding => t \in Queried

\* C4 (amended): a source with an embedding is left unqueried only when the
\* sources before it in the shuffled order already supplied total_needed new
\* papers; an exceeded time budget alone leaves no source unqueried.
C4_SourceQueriedUnlessPageFull ==
    TagSearchDone =>
        \A n \in 1..Len(local.tagged_papers) :
            local.tagged_papers[n] \in DOMAIN Embedding =>
                \/ local.tagged_papers[n] \in Queried
                \/ n > local.i /\ local.count >= RESULTS_PER_PAGE

\* C4 witness: a finished tag search over at least two sources with
\* embeddings, one of them fetched at the widened depth and a later one
\* fetched all the same.
C4_Witness ==
    /\ TagSearchDone
    /\ Len(nn_queries) >= 2
    /\ nn_queries[1].depth = RESULTS_PER_PAGE
    /\ nn_queries[1].depth # Depth
    /\ \A t \in TagMembers(SearchedTag) : t \in Queried

\* C6: no member of the searched tag appears in the results of a tag
\* similarity search, whatever the drawer-scope tag of the request is.
C6_NoSourceInResults ==
    TagSearchDone => Range(response.papers) \cap TagMembers(SearchedTag) = {}

\* ========================================================== claims, Spec
Done == pc = "done"

\* get_object_or_404(Tag, ...) raised before any strategy was selected
DrawerRaised == Done /\ DrawerTagMissing(request)

KnownOffset(date_filter) == date_filter \in DOMAIN date_cutoffs

\* A paper passes the category filter and the exclusions of the context
Eligible(p) ==
    /\ p \notin context.exclude_ids
    /\ request.category # "" => request.category \in Paper[p].categories

\* The papers a one-step strategy may return, the date filter left aside
Matching ==
    CASE response.search_context = "title" ->
           {p \in DOMAIN Paper : Eligible(p) /\ IContains(Paper[p].title, The(context.title_query))}
      [] response.search_context = "keyword" ->
           {p \in DOMAIN Paper :
               /\ Eligible(p)
               /\ Words(context.query) \subseteq Words(Paper[p].title) \cup Words(Paper[p].abstract)}
      [] response.search_context = "single_paper" ->
           IF nn_queries = <<>> THEN {} ELSE {p \in DOMAIN Embedding : Eligible(p)}
      [] OTHER -> {}

\* C5: every paper returned by any retrieval mode satisfies the request's
\* filters: created not before the cutoff of a known date_filter token,
\* category_filter in its categories, its id not in exclude_ids; and a token
\* that is "all" or unknown applies no lower bound (a page that is not full
\* then holds every matching paper, whatever its age).
C5_FiltersHold ==
    Done /\ response.status = 200 =>
        /\ \A p \in Range(response.papers) :
             /\ KnownOffset(request.date_filter) =>
                    Paper[p].created >= now - date_cutoffs[request.date_filter]
             /\ request.category # "" => request.category \in Paper[p].categories
             /\ p \notin request.exclude_ids
        /\ (/\ request.date_filter # ""
            /\ ~KnownOffset(request.date_filter)
            /\ Len(response.papers) < RESULTS_PER_PAGE)
           => Matching \subseteq Range(response.papers)

\* C5 witness: a search with an unknown date token, a category filter and
\* excluded ids that returned a paper older than every offset of the table.
C5_Witness ==
    /\ Done
    /\ request.date_filter = "bogus"
    /\ request.category # ""
    /\ request.exclude_ids # {}
    /\ \E p \in Range(response.papers) : Paper[p].created < now - date_cutoffs["2years"]
    /\ \E p \in DOMAIN Paper : request.category \notin Paper[p].categories

\* The source paper of a single-paper search: by internal id, else by arXiv id
SinglePaperSource ==
    IF PaperGetById(The(context.single_paper_id)) # {}
    THEN PaperGetById(The(context.single_paper_id))
    ELSE PaperGetByArxivId(The(context.single_paper_id))

\* C7: in a single-source similarity search the source paper itself never
\* appears in the results.
C7_SourceExcluded ==
    Done /\ response.search_context = "single_paper" =>
        SinglePaperSource \cap Range(response.papers) = {}

\* C7 witness: a single-paper search that returned papers, whose source has
\* an embedding, passes the date and category filters and is neither in
\* exclude_ids nor in the drawer tag.
C7_Witness ==
    /\ Done
    /\ response.search_context = "single_paper"
    /\ Len(response.papers) >= 1
    /\ request.tag = None
    /\ context.date_filter = "1week"
    /\ \E src \in SinglePaperSource :
         /\ src \in DOMAIN Embedding
         /\ src \notin request.exclude_ids
         /\ Paper[src].created >= now - date_cutoffs["1week"]
         /\ request.category # "" => request.category \in Paper[src].categories
         /\ \E p \in Range(response.papers) :
              DISTANCE_FUNCTION(Embedding[p], Embedding[src]) = 0

IsTagQuery == ReMatch(TagPrefix, Strip(request.q))
TagName == Group1(TagPrefix, Strip(request.q))
OwnTags(name) == {t \in DOMAIN Tag : Tag[t].user = request.user /\ Tag[t].name = name}

\* C9: a "tag: <name>" query is resolved against the requesting user's own
\* tags by exact name: login-required error for an unauthenticated requester,
\* tag-not-found error when the requester owns no tag of that name (also when
\* another user does), and multi-source retrieval is selected only on
\* success, with that tag's members as sources.
C9_TagResolution ==
    Done =>
        /\ IsTagQuery /\ request.user = Anon => context.query_error = Some(LoginRequired)
        /\ IsTagQuery /\ request.user # Anon /\ OwnTags(TagName) = {} =>
               context.query_error = Some(TagDoesNotExist(TagName))
        /\ IsTagQuery /\ request.user # Anon /\ OwnTags(TagName) # {} =>
               context.query_error = None /\ context.parsed_tag_for_search = OwnTags(TagName)
        /\ response.search_context = "tag_all" =>
               /\ IsTagQuery
               /\ request.user # Anon
               /\ context.parsed_tag_for_search = OwnTags(TagName)
               /\ OwnTags(TagName) # {}
               /\ Range(local.tagged_papers) = TagMembers(The(OwnTags(TagName)))
               /\ Queried \subseteq TagMembers(The(OwnTags(TagName)))

\* C9 witness: an authenticated requester asks for a tag name that only
\* another user owns and gets the tag-not-found error.
C9_Witness ==
    /\ Done
    /\ IsTagQuery
    /\ request.user # Anon
    /\ \E t \in DOMAIN Tag : Tag[t].name = TagName /\ Tag[t].user # request.user
    /\ response.status = 200
    /\ response.query_error = Some(TagDoesNotExist(TagName))

IsPaperQuery == ~IsTagQuery /\ ReMatch(PaperPrefix, Strip(request.q))
PaperToken == Strip(Group1(PaperPrefix, Strip(request.q)))

\* The paper an id resolves to: first as internal id, then as arxiv_id
Resolve(id) == IF PaperGetById(id) # {} THEN PaperGetById(id) ELSE PaperGetByArxivId(id)

\* The id given for similarity search: the one of the query text, else the
\* single_paper parameter
GivenPaperId ==
    IF IsPaperQuery THEN Some(PaperToken)
    ELSE IF Truthy(request.single_paper) /\ ~IsTagQuery THEN request.single_paper
    ELSE None

\* C10: a paper id given through "paper: <id>" or through
\* single_paper is resolved first as an internal id and then as an arxiv_id;
\* when neither finds a paper the request ends with the typed
\* paper-not-found error and an empty result, never with a raised fault.
C10_TypedPaperNotFound ==
    Done /\ ~DrawerRaised /\ GivenPaperId # None =>
        IF Resolve(The(GivenPaperId)) = {}
        THEN /\ response.status = 200
             /\ response.papers = <<>>
             /\ response.query_error = Some(PaperDoesNotExist(The(GivenPaperId)))
        ELSE /\ response.status = 200
             /\ response.search_context = "single_paper"
             /\ SinglePaperSource = Resolve(The(GivenPaperId))

\* The drawer tag of the request, when it is a tag of the requesting user
OwnDrawerTag ==
    IF request.user # Anon /\ request.tag # None /\ ~DrawerTagMissing(request)
    THEN request.tag ELSE None

\* C11: when a request carries both the single_paper parameter and a query
\* text "paper: <id>" naming a different paper, the paper of the explicit
\* parameter is the similarity source.
C11_ExplicitParameterWins ==
    (/\ Done
     /\ ~DrawerRaised
     /\ IsPaperQuery
     /\ PaperGetByArxivId(PaperToken) # {}
     /\ Truthy(request.single_paper)
     /\ Resolve(The(request.single_paper)) # {}
     /\ Resolve(The(request.single_paper)) # PaperGetByArxivId(PaperToken))
    => /\ response.search_context = "single_paper"
       /\ SinglePaperSource = Resolve(The(request.single_paper))
       /\ Queried \subseteq Resolve(The(request.single_paper))

\* C12: an explicit search_all parameter selects multi-source similarity
\* retrieval (over the tag the request names) also when the query text has
\* no "tag:" prefix, and an explicit single_paper parameter selects
\* single-source similarity retrieval also when the text has no "paper:"
\* prefix.
C12_ExplicitParametersSelect ==
    Done /\ ~DrawerRaised /\ context.query_error = None =>
        /\ (/\ Truthy(request.single_paper)
            /\ ~IsPaperQuery
            /\ Resolve(The(request.single_paper)) # {})
           => /\ response.search_context = "single_paper"
              /\ SinglePaperSource = Resolve(The(request.single_paper))
        /\ (/\ Truthy(request.search_all)
            /\ ~IsTagQuery
            /\ ~Truthy(context.single_paper_id)
            /\ OwnDrawerTag # None)
           => response.search_context = "tag_all"

\* s begins with the prefix, exactly one space, and a character that is no
\* blank
ExactPrefix(prefix, s) ==
    /\ Len(s) >= Len(prefix) + 2
    /\ SubSeq(s, 1, Len(prefix) + 1) = prefix \o <<" ">>
    /\ s[Len(prefix) + 2] \notin Whitespace

\* C13: a raw query is classified as a tag, paper or title query only when
\* it begins with exactly "tag: ", "paper: " or "title: " (one space after
\* the colon); every other string, also one with a tab or with two spaces
\* after the colon, is treated whole as free-text keyword input.
C13_ExactPrefixOnly ==
    Done /\ ~DrawerRaised =>
        LET q == Strip(request.q)
        IN IF ExactPrefix(TagPrefix, q)
           THEN context.query_error # None \/ context.parsed_tag_for_search # None
           ELSE IF ExactPrefix(PaperPrefix, q)
           THEN context.query_error # None \/ context.actual_query = <<>>
           ELSE IF ExactPrefix(TitlePrefix, q)
           THEN context.title_query = Some(Strip(Group1(TitlePrefix, q)))
           ELSE /\ context.query_error = None
                /\ context.parsed_tag_for_search = None
                /\ context.title_query = None
                /\ context.single_paper_id = request.single_paper
                /\ context.search_all_tag = request.search_all
                /\ context.actual_query = q
                /\ response.search_context \in {"none", "keyword", "single_paper"}

\* The papers a one-step strategy may return: the matching papers that pass
\* the date filter search() applied
RawMatches ==
    {p \in Matching :
        get_date_cutoff(context.date_filter) # None =>
            Paper[p].created >= The(get_date_cutoff(context.date_filter))}

\* C14: when the request gives no date_filter, keyword and title searches
\* apply no date lower bound (a page that is not full holds every matching
\* paper, whatever its age) and similarity searches apply the 1week cutoff.
C14_DefaultDateFilter ==
    Done /\ response.status = 200 /\ request.date_filter = "" =>
        /\ (/\ response.search_context \in {"title", "keyword"}
            /\ Len(response.papers) < RESULTS_PER_PAGE)
           => Matching \subseteq Range(response.papers)
        /\ response.search_context \in {"single_paper", "tag_all"} =>
              \A p \in Range(response.papers) :
                  Paper[p].created >= now - date_cutoffs["1week"]

\* C15: has_more is true exactly when more raw results existed beyond the
\* page cap and the results shown in the session (the ids sent as
\* exclude_ids and this page) have not reached MAX_RESULTS; a search whose
\* matches number less than the page size reports has_more = FALSE.
\* Stated for the strategies that query once.
C15_HasMoreExact ==
    (/\ Done
     /\ response.status = 200
     /\ response.search_context \in {"title", "keyword", "single_paper"})
    => /\ response.has_more <=>
              /\ Cardinality(RawMatches) > RESULTS_PER_PAGE
              /\ Cardinality(request.exclude_ids) + Len(response.papers) < MAX_RESULTS
       /\ Cardinality(RawMatches) < RESULTS_PER_PAGE => ~response.has_more

\* ------------------------------------------------------- load-more sessions
\* The ids of all the papers the client has received for its query
ShownIds == UNION {Range(shown[i]) : i \in 1..Len(shown)}

\* The client's "load more", used while has_more is true: the same query
\* again as an AJAX POST whose exclude_ids are the ids received so far
load_more ==
    /\ pc = "done"
    /\ response.status = 200
    /\ response.has_more
    /\ search([request EXCEPT !.ajax = TRUE, !.exclude_ids = ShownIds])

\* harvest_records.save_paper: Paper.objects.get_or_create(arxiv_id=...)
save_paper(data) ==
    /\ pc = "done"
    /\ PaperGetByArxivId(data.arxiv_id) = {}
    /\ Paper' = Append(Paper, data)
    /\ UNCHANGED <<Tag, TaggedPaper, Embedding, EmbeddingVoyageHalf2048, EmbeddingVoyageHalf256,
                   now, pc, request, context, local, nn_queries, response, shown>>

\* add_voyage_embeddings.process_batch_by_ids for one paper without an
\* embedding, its three bulk_create calls succeeding
embedding_created(paper, vector) ==
    /\ pc = "done"
    /\ paper \in DOMAIN Paper
    /\ paper \notin DOMAIN Embedding
    /\ Embedding' = [p \in DOMAIN Embedding \cup {paper} |->
                        IF p = paper THEN Bit2048Row(Full(vector)) ELSE Embedding[p]]
    /\ EmbeddingVoyageHalf2048' =
         [p \in DOMAIN Embedding \cup {paper} |->
             IF p = paper THEN Half2048Row(Full(vector)) ELSE EmbeddingVoyageHalf2048[p]]
    /\ EmbeddingVoyageHalf256' =
         [p \in DOMAIN Embedding \cup {paper} |->
             IF p = paper THEN Half256Row(Full(vector)) ELSE EmbeddingVoyageHalf256[p]]
    /\ UNCHANGED <<Paper, Tag, TaggedPaper, now, pc, request, context, local,
                   nn_queries, response, shown>>

\* views_auth.add_to_tag with a tag_id (the tag_name branch creates the tag
\* first; the requests drawn here name the tag by id)
add_to_tag(user, paper_id, tag_id) ==
    /\ pc = "done"
    /\ user # Anon
    /\ paper_id \in DOMAIN Paper
    /\ tag_id \in DOMAIN Tag /\ Tag[tag_id].user = user
    /\ [tag |-> tag_id, paper |-> paper_id] \notin TaggedPaper
    /\ TaggedPaper' = TaggedPaper \cup {[tag |-> tag_id, paper |-> paper_id]}
    /\ UNCHANGED <<Paper, Tag, Embedding, EmbeddingVoyageHalf2048, EmbeddingVoyageHalf256,
                   now, pc, request, context, local, nn_queries, response, shown>>

\* The number of papers of the session corpus: more than MAX_RESULTS
SessionPapers == MAX_RESULTS + 3

\* The vector of paper p of the session corpus: the binary digits of p
SessionVector(p) == {i \in 1..VecBits : (p \div (2 ^ (i - 1))) % 2 = 1}

\* Papers of the last week, of one category, that all hold the word "b",
\* all but the last with an embedding; u1's tag 1 ("x") holds the papers 1 and 2, u1's
\* tag 2 ("z") holds the paper 3.
InitSessionCorpus ==
    /\ Paper = [p \in 1..SessionPapers |->
                  [arxiv_id |-> ArxivId(p), created |-> 0 - (p % date_cutoffs["1week"]),
                   title |-> <<"b">>, abstract |-> <<"c">>, categories |-> {"cs"}]]
    /\ Embedding = [p \in 1..(SessionPapers - 1) |-> SessionVector(p)]
    /\ VoyageTables
    /\ Tag = <<[user |-> "u1", name |-> NameX], [user |-> "u1", name |-> NameZ]>>
    /\ TaggedPaper = {[tag |-> 1, paper |-> 1], [tag |-> 1, paper |-> 2],
                      [tag |-> 2, paper |-> 3]}

\* The first requests of the sessions: a tag search, a keyword search and a
\* single-paper search, with and without a drawer tag
SessionRequests ==
    [user : {"u1"},
     ajax : {FALSE},
     q : {Text(TagPrefix, NameX), <<"b">>},
     date_filter : {""},
     category : {""},
     tag : {None, Some(2)},
     single_paper : {None},
     search_all : {None},
     exclude_ids : {{}}]
    \cup
    [user : {"u1"},
     ajax : {FALSE},
     q : {<<>>},
     date_filter : {""},
     category : {""},
     tag : {None, Some(2)},
     single_paper : {Some(<<"2">>)},
     search_all : {None},
     exclude_ids : {{}}]

InitSession == InitSessionCorpus /\ Idle

\* Sessions over a datastore nothing is written to
NextSession ==
    \/ Receive(SessionRequests)
    \/ \E late \in BOOLEAN : tag_search_loop(late)
    \/ tag_search_return
    \/ load_more

SpecSession == InitSession /\ [][NextSession]_vars

\* The paper save_paper may add
NewPaper ==
    [arxiv_id |-> ArxivId(SessionPapers + 1), created |-> 0, title |-> <<"b">>,
     abstract |-> <<"c">>, categories |-> {"cs"}]

\* Sessions with writes to the datastore between the requests
NextSessionWrites ==
    \/ Receive({r \in SessionRequests : r.tag = None})
    \/ \E late \in BOOLEAN : tag_search_loop(late)
    \/ tag_search_return
    \/ load_more
    \/ save_paper(NewPaper)
    \/ embedding_created(SessionPapers, {})
    \/ add_to_tag("u1", 4, 1)

SpecSessionWrites == InitSession /\ [][NextSessionWrites]_vars

\* ============================================ claims, load-more sessions
\* The number of results the session has returned
RECURSIVE TotalShown(_)
TotalShown(pages) == IF pages = <<>> THEN 0 ELSE Len(Head(pages)) + TotalShown(Tail(pages))

\* C16: in a load-more session (next page asked only while has_more is
\* true, all ids returned so far sent as exclude_ids) the number of results
\* returned over the whole session never exceeds MAX_RESULTS, in every
\* retrieval mode.
C16_SessionCapped == TotalShown(shown) <= MAX_RESULTS

\* C17: across the requests of a load-more session no paper is returned on
\* more than one page (nor twice on a page), also when papers, embeddings
\* or tag memberships are added between the requests.
C17_NoRepeatAcrossPages ==
    /\ \A i, j \in 1..Len(shown) : i # j => Range(shown[i]) \cap Range(shown[j]) = {}
    /\ \A i \in 1..Len(shown) : Cardinality(Range(shown[i])) = Len(shown[i])

\* C17 witness: a tag search session of two non-empty pages, the second
\* served after a paper, an embedding and a tag membership were added, and
\* drawing on the added source.
C17_Witness ==
    /\ pc = "done"
    /\ response.search_context = "tag_all"
    /\ Len(shown) = 2
    /\ shown[1] # <<>>
    /\ shown[2] # <<>>
    /\ request.exclude_ids = Range(shown[1])
    /\ Len(Paper) > SessionPapers
    /\ SessionPapers \in DOMAIN Embedding
    /\ 4 \in Queried

\* ================================================= claims, Spec (continued)
\* The names of the requesting user's own tags that hold paper p
OwnTagNames(p) ==
    {Tag[t].name : t \in {u \in DOMAIN Tag :
                             /\ Tag[u].user = request.user
                             /\ [tag |-> u, paper |-> p] \in TaggedPaper}}

\* C18: the tags annotation of every result entry holds exactly the names of
\* the requesting user's own tags that hold the paper: nothing for an
\* anonymous request, and never a name of a tag only another user owns.
C18_OwnTagAnnotations ==
    Done /\ response.status = 200 =>
        /\ DOMAIN response.tags = Range(response.papers)
        /\ \A p \in Range(response.papers) :
             /\ response.tags[p] = IF request.user = Anon THEN {} ELSE OwnTagNames(p)
             /\ \A t \in DOMAIN Tag :
                  (/\ [tag |-> t, paper |-> p] \in TaggedPaper
                   /\ Tag[t].name \in response.tags[p])
                  => \E u \in DOMAIN Tag :
                       /\ Tag[u].user = request.user
                       /\ Tag[u].name = Tag[t].name
                       /\ [tag |-> u, paper |-> p] \in TaggedPaper

\* C18 witness: an authenticated request whose results hold a paper with an
\* annotation and a paper that another user tagged under a name that is
\* not in its annotation.
C18_Witness ==
    /\ Done
    /\ request.user # Anon
    /\ \E p \in Range(response.papers) : response.tags[p] # {}
    /\ \E p \in Range(response.papers) :
         \E t \in DOMAIN Tag :
            /\ Tag[t].user # request.user
            /\ [tag |-> t, paper |-> p] \in TaggedPaper
            /\ Tag[t].name \notin response.tags[p]

\* The papers the candidate predicate of the request selects
Candidates ==
    Rows([excluded |-> context.exclude_ids,
          date_cutoff |-> get_date_cutoff(context.date_filter),
          category |-> context.category_filter])

\* The sources tag_search's loop has reached
Reached == {local.tagged_papers[i] : i \in 1..local.i}

\* C19: missing data gives an empty result and no error: a single-source
\* search on a paper without an embedding returns [], a multi-source search
\* on a tag without papers returns [], a source without an embedding is
\* skipped while the other sources contribute their neighbours, and a
\* candidate predicate that selects no paper returns [].
C19_MissingDataIsEmptyResult ==
    Done /\ ~DrawerRaised /\ context.query_error = None =>
        /\ (/\ Strategy(context) = "paper_search"
            /\ SinglePaperSource # {}
            /\ SinglePaperSource \cap DOMAIN Embedding = {})
           => /\ response.status = 200
              /\ response.search_context = "single_paper"
              /\ response.papers = <<>>
              /\ response.query_error = None
        /\ (/\ Strategy(context) = "tag_search"
            /\ TagMembers(SearchedTag) = {})
           => /\ response.status = 200
              /\ response.search_context = "tag_all"
              /\ response.papers = <<>>
              /\ response.query_error = None
        /\ (/\ Strategy(context) = "tag_search"
            /\ TagMembers(SearchedTag) # {})
           => /\ response.status = 200
              /\ response.query_error = None
              /\ Queried = Reached \cap DOMAIN Embedding
              /\ Range(response.papers) =
                    UNION {Range(nn_queries[i].similars) : i \in 1..Len(nn_queries)}
        /\ (/\ Strategy(context) \in {"tag_search", "title_search", "keyword_search"}
               \/ (Strategy(context) = "paper_search" /\ SinglePaperSource # {})
            /\ Candidates = {})
           => /\ response.status = 200
              /\ response.papers = <<>>
              /\ response.query_error = None

\* C19 witness: a tag search whose first source has no embedding and whose
\* later source contributed the results.
C19_Witness ==
    /\ TagSearchDone
    /\ local.tagged_papers # <<>>
    /\ local.tagged_papers[1] \notin DOMAIN Embedding
    /\ local.i >= 2
    /\ response.papers # <<>>
    /\ response.status = 200

\* ================================ claims, load-more sessions (continued)
SinglePaperDone ==
    /\ Done
    /\ response.status = 200
    /\ response.search_context = "single_paper"
    /\ SinglePaperSource \subseteq DOMAIN Embedding

\* The distance of paper p's vector to the source's
SourceDistance(p) == DISTANCE_FUNCTION(Embedding[p], Embedding[The(SinglePaperSource)])

\* The candidates of a similarity search: eligible and with an embedding
Neighbours == Candidates \cap DOMAIN Embedding

Grid == 10
MaxCoord == 3
SCAN_LIMIT == 4         \* arxiv_troller views.py:238 ([:1000]), scaled

One == <<1, 1>>
RatAdd(a, b) == <<a[1] * b[2] + b[1] * a[2], a[2] * b[2]>>
RatMul(a, b) == <<a[1] * b[1], a[2] * b[2]>>
RatDiv(a, b) == <<a[1] * b[2], a[2] * b[1]>>
RatEq(a, b) == a[1] * b[2] = b[1] * a[2]
RatLess(a, b) == a[1] * b[2] < b[1] * a[2]

\* L2Distance of two points of the line
L2Distance(v, w) == <<IF v > w THEN v - w ELSE w - v, Grid>>

\* get_date_cutoff of arxiv_troller: its table has no "1day" and no "3day"
troller_get_date_cutoff(date_filter) ==
    IF date_filter = "all" THEN None
    ELSE IF date_filter \in DOMAIN date_cutoffs \ {"1day", "3day"}
         THEN Some(now - date_cutoffs[date_filter])
    ELSE None

\* The table RemovedPaper: nothing was removed from a tag
RemovedPaper == {}

\* Paginator(results, 20).get_page(number): a number out of range gives the
\* last page, and an empty list has one (empty) page
get_page(results, number) ==
    LET num_pages == Max(1, (Len(results) + RESULTS_PER_PAGE - 1) \div RESULTS_PER_PAGE)
        n == IF number < 1 \/ number > num_pages THEN num_pages ELSE number
    IN SubSeq(results, (n - 1) * RESULTS_PER_PAGE + 1, Min(n * RESULTS_PER_PAGE, Len(results)))

\* Mutant of similarity_score: the distance is truncated to an integer
similarity_score_floor(distance) == RatDiv(One, RatAdd(One, <<distance[1] \div distance[2], 1>>))

\* "similarity_score": 1 / (1 + emb.distance)
similarity_score(distance) == RatDiv(One, RatAdd(One, distance))

\* _execute_single_paper_search: the pages it may put into the context
SinglePaperResults(r) ==
    LET paper == r.single_paper_id
        date_filter == IF r.date_filter = "" THEN "1week" ELSE r.date_filter
        excluded_ids == {paper} \cup (IF r.current_tag # None
                                      THEN {x.paper : x \in {y \in RemovedPaper : y.tag = The(r.current_tag)}}
                                      ELSE {})
        paper_query == [excluded |-> excluded_ids,
                        date_cutoff |-> troller_get_date_cutoff(date_filter),
                        category |-> r.category_filter]
        cands == Rows(paper_query) \cap DOMAIN Embedding
        distance == [p \in cands |-> L2Distance(Embedding[p], Embedding[paper])]
        key == [p \in cands |-> <<distance[p][1], 0>>]
    IN {LET similar_embeddings == Limit(f, SCAN_LIMIT)
            paper_tags == PaperTags(r.user, similar_embeddings)
            results == [i \in 1..Len(similar_embeddings) |->
                           [paper |-> similar_embeddings[i],
                            similarity_score |-> similarity_score(distance[similar_embeddings[i]]),
                            tags |-> paper_tags[similar_embeddings[i]]]]
        IN [status |-> 200,
            results |-> get_page(results, r.page),
            all_categories |-> UNION {Paper[p].categories : p \in Range(similar_embeddings)},
            date_filter |-> date_filter] :
          f \in OrderBy(cands, key)}

\* unified_search_view with single_paper_id: _execute_single_paper_search
execute_single_paper_search(r) ==
    /\ pc = "idle"
    /\ pc' = "done"
    /\ request' = r
    /\ IF r.single_paper_id \notin DOMAIN Paper
       THEN response' = [status |-> 404, results |-> <<>>, all_categories |-> {},
                         date_filter |-> r.date_filter]
       ELSE IF r.single_paper_id \notin DOMAIN Embedding
       THEN response' = [status |-> 200, results |-> <<>>, all_categories |-> {},
                         date_filter |-> IF r.date_filter = "" THEN "1week" ELSE r.date_filter]
       ELSE response' \in SinglePaperResults(r)
    /\ UNCHANGED <<db, context, local, nn_queries, shown>>

\* The corpus of InitCorpus with every placement of four embeddings on the line
InitScoreCorpus ==
    /\ Paper = [p \in PaperIds |->
                  [arxiv_id |-> ArxivId(p),
                   created |-> IF p <= Len(Ages) THEN 0 - Ages[p] ELSE 0 - p,
                   title |-> <<"b">>,
                   abstract |-> <<"c">>,
                   categories |-> IF p <= Len(Categories) THEN Categories[p] ELSE {"cs"}]]
    /\ Embedding \in [DOMAIN Vector -> 0..MaxCoord]
    /\ EmbeddingVoyageHalf2048 = <<>>
    /\ EmbeddingVoyageHalf256 = <<>>
    /\ Tag = <<[user |-> "u1", name |-> NameX], [user |-> "u2", name |-> NameY]>>
    /\ TaggedPaper = {[tag |-> 1, paper |-> 2], [tag |-> 2, paper |-> 3]}

ScoreRequests ==
    [user : {"u1", Anon},
     single_paper_id : 1..(NumPapers + 1),
     current_tag : {None, Some(1)},
     date_filter : {"", "all", "1day"},
     category_filter : {"", "cs"},
     page : 1..3]

InitScore == InitScoreCorpus /\ Idle

NextScore == \E r \in ScoreRequests : execute_single_paper_search(r)

SpecScore == InitScore /\ [][NextScore]_vars

\* The result page of a single-paper similarity search of arxiv_troller
ScoreDone == pc = "done" /\ response.status = 200 /\ response.results # <<>>

\* The distance of a result's embedding from the source's, read from the tables
ResultDistance(i) ==
    L2Distance(Embedding[response.results[i].paper], Embedding[request.single_paper_id])

\* C21: the similarity score shown with a result is 1/(1+distance), and of
\* two results of one source the one at the smaller distance has the
\* strictly greater score.
C21_ScoreDecreasing ==
    ScoreDone =>
        \A i \in 1..Len(response.results) :
            /\ RatEq(RatMul(response.results[i].similarity_score, RatAdd(One, ResultDistance(i))), One)
            /\ \A j \in 1..Len(response.results) :
                 RatLess(ResultDistance(i), ResultDistance(j))
                   => RatLess(response.results[j].similarity_score,
                              response.results[i].similarity_score)

\* A page with two results at different distances, none of them an integer
C21_Witness ==
    /\ ScoreDone
    /\ \E i, j \in 1..Len(response.results) :
         /\ RatLess(ResultDistance(i), ResultDistance(j))
         /\ ResultDistance(i)[1] % Grid # 0
         /\ ResultDistance(j)[1] % Grid # 0

\* -------------------------------------------------- process_latex_commands
\* A regular expression is modelled by the matches re.sub finds for it:
\* leftmost first, the scan going on behind each match.

\* The character ` (a TLA+ string cannot hold it)
Backtick == "grave"

\* The literal texts of the patterns and of the replacements
CmdHref == <<"\\", "h", "r", "e", "f", "{">>
Https == <<"h", "t", "t", "p", "s", ":", "/", "/">>
Http == <<"h", "t", "t", "p", ":", "/", "/">>
HrefAttr == <<"h", "r", "e", "f", "=", "\"">>
AnchorBody == <<"\"", ">">>
CmdTextbackslash == <<"\\", "t", "e", "x", "t", "b", "a", "c", "k", "s", "l", "a", "s", "h">>
CmdTextbf == <<"\\", "t", "e", "x", "t", "b", "f", "{">>
Strong == <<"<", "s", "t", "r", "o", "n", "g", ">">>
StrongEnd == <<"<", "/", "s", "t", "r", "o", "n", "g", ">">>
CmdTextit == <<"\\", "t", "e", "x", "t", "i", "t", "{">>
Em == <<"<", "e", "m", ">">>
EmEnd == <<"<", "/", "e", "m", ">">>
CmdEmph == <<"\\", "e", "m", "p", "h", "{">>
CmdTexttt == <<"\\", "t", "e", "x", "t", "t", "t", "{">>
Code == <<"<", "c", "o", "d", "e", ">">>
CodeEnd == <<"<", "/", "c", "o", "d", "e", ">">>
CmdUnderline == <<"\\", "u", "n", "d", "e", "r", "l", "i", "n", "e", "{">>
Underlined == <<"<", "u", ">">>
UnderlinedEnd == <<"<", "/", "u", ">">>
CmdUrl == <<"\\", "u", "r", "l", "{">>
BacktickReplacement ==
    <<",", " ", "t", "e", "x", "t", ")", "\n", " ", " ", " ", " ", "t", "e", "x", "t",
      " ", "=", " ", "r", "e", ".", "s", "u", "b", "(", "r", "\"", "'", "\"", ",", " ">>
Nbsp == <<"&", "n", "b", "s", "p", ";">>
Br == <<"<", "b", "r", ">">>

\* text has pat at position i
StartsAt(text, i, pat) ==
    i + Len(pat) - 1 <= Len(text) /\ SubSeq(text, i, i + Len(pat) - 1) = pat

\* The least element of a non-empty set of positions
First(S) == CHOOSE x \in S : \A y \in S : x <= y

\* re.sub(pattern, repl, text) from position i on.  MatchEnd(text, j) is the
\* last position of the pattern's match at j (0 without a match) and
\* Repl(text, j, e) the replacement of the match j..e.
RECURSIVE SubFrom(_, _, _, _)
SubFrom(MatchEnd(_, _), Repl(_, _, _), text, i) ==
    LET matches == {j \in i..Len(text) : MatchEnd(text, j) # 0}
    IN IF matches = {} THEN SubSeq(text, i, Len(text))
       ELSE LET j == First(matches)
                e == MatchEnd(text, j)
            IN SubSeq(text, i, j - 1) \o Repl(text, j, e) \o SubFrom(MatchEnd, Repl, text, e + 1)

\* re.sub of a pattern without operators (a literal text)
ReSub(pat, rep, text) ==
    SubFrom(LAMBDA t, j : IF StartsAt(t, j, pat) THEN j + Len(pat) - 1 ELSE 0,
            LAMBDA t, j, e : rep, text, 1)

\* The position of the first "}" at or behind i, 0 if there is none
CloseAt(text, i) ==
    LET closing == {j \in i..Len(text) : text[j] = "}"}
    IN IF closing = {} THEN 0 ELSE First(closing)

\* cmd([^}]+)\} at position i: the position of the closing brace, 0 without a match
GroupEnd(text, i, cmd) ==
    IF StartsAt(text, i, cmd)
    THEN LET c == CloseAt(text, i + Len(cmd)) IN IF c > i + Len(cmd) THEN c ELSE 0
    ELSE 0

\* re.sub(cmd([^}]+)\}, before \1 after)
ReSubCmd(cmd, before, after, text) ==
    SubFrom(LAMBDA t, j : GroupEnd(t, j, cmd),
            LAMBDA t, j, e : before \o SubSeq(t, j + Len(cmd), e - 1) \o after, text, 1)

AnchorOpen == <<"<", "a", " ", "h", "r", "e", "f", "=", "\"">>
AnchorTarget ==
    <<"\"", " ", "t", "a", "r", "g", "e", "t", "=", "\"", "_", "b", "l", "a", "n", "k", "\"", ">">>
AnchorClose == <<"<", "/", "a", ">">>

\* <a href="href" target="_blank">body</a>
Anchor(href, body) == AnchorOpen \o href \o AnchorTarget \o body \o AnchorClose

\* re.sub(\\url\{([^}]+)\}, <a href="\1" target="_blank">\1</a>)
ReSubUrlCmd(text) ==
    SubFrom(LAMBDA t, j : GroupEnd(t, j, CmdUrl),
            LAMBDA t, j, e : Anchor(SubSeq(t, j + Len(CmdUrl), e - 1),
                                    SubSeq(t, j + Len(CmdUrl), e - 1)), text, 1)

\* \\href\{([^}]+)\}\{([^}]+)\} at position i: the position of the second
\* closing brace, 0 without a match
HrefEnd(text, i) ==
    LET c1 == GroupEnd(text, i, CmdHref)
        c2 == IF c1 # 0 /\ c1 + 1 <= Len(text) /\ text[c1 + 1] = "{"
              THEN CloseAt(text, c1 + 2) ELSE 0
    IN IF c1 # 0 /\ c2 > c1 + 2 THEN c2 ELSE 0

\* re.sub(\\href\{([^}]+)\}\{([^}]+)\}, <a href="\1" target="_blank">\2</a>)
ReSubHref(text) ==
    SubFrom(HrefEnd,
            LAMBDA t, j, e : LET c1 == GroupEnd(t, j, CmdHref)
                             IN Anchor(SubSeq(t, j + Len(CmdHref), c1 - 1),
                                       SubSeq(t, c1 + 2, e - 1)), text, 1)

\* (?=\s|$): white space follows position i - 1, or the text ends there
AtEnd(text, i) == i > Len(text) \/ text[i] \in Whitespace

\* https?:// at position i: the position behind it, 0 without a match
SchemeEnd(text, i) ==
    IF StartsAt(text, i, Https) THEN i + Len(Https)
    ELSE IF StartsAt(text, i, Http) THEN i + Len(Http)
    ELSE 0

\* [^\s<>"]+?(\.)?(?=\s|$) from position s on: the last position of the
\* shortest run that lets the rest match, 0 if there is none
UrlRun(text, s) ==
    LET runs == {k \in s..Len(text) :
                    /\ \A x \in s..k : text[x] \notin Whitespace \cup {"<", ">", "\""}
                    /\ \/ k + 1 <= Len(text) /\ text[k + 1] = "." /\ AtEnd(text, k + 2)
                       \/ AtEnd(text, k + 1)}
    IN IF runs = {} THEN 0 ELSE First(runs)

\* (\.)? behind the run ending at k: greedy, so the full stop belongs to
\* the match when the lookahead holds behind it
UrlDot(text, k) == k + 1 <= Len(text) /\ text[k + 1] = "." /\ AtEnd(text, k + 2)

\* (?<!href=")(?<!">)(https?://[^\s<>"]+?)(\.)?(?=\s|$) at position i: the
\* last position of the match, 0 without a match
UrlEnd(text, i) ==
    LET behind(pat) == i > Len(pat) /\ SubSeq(text, i - Len(pat), i - 1) = pat
        s == SchemeEnd(text, i)
        k == IF s = 0 \/ behind(HrefAttr) \/ behind(AnchorBody) THEN 0 ELSE UrlRun(text, s)
    IN IF k = 0 THEN 0 ELSE IF UrlDot(text, k) THEN k + 1 ELSE k

\* the lambda of the source: the link, and the full stop behind it
ReSubUrl(text) ==
    SubFrom(UrlEnd,
            LAMBDA t, j, e : LET k == UrlRun(t, SchemeEnd(t, j))
                             IN Anchor(SubSeq(t, j, k), SubSeq(t, j, k))
                                  \o (IF e > k THEN <<".">> ELSE <<>>), text, 1)

\* re.sub(\\textbackslash(?:\{\})?, one backslash)
ReSubBackslash(text) ==
    SubFrom(LAMBDA t, j : IF StartsAt(t, j, CmdTextbackslash \o <<"{", "}">>)
                          THEN j + Len(CmdTextbackslash) + 1
                          ELSE IF StartsAt(t, j, CmdTextbackslash)
                          THEN j + Len(CmdTextbackslash) - 1
                          ELSE 0,
            LAMBDA t, j, e : <<"\\">>, text, 1)

\* The text formatting commands
Formatting(text) ==
    LET t1 == ReSubCmd(CmdTextbf, Strong, StrongEnd, text)
        t2 == ReSubCmd(CmdTextit, Em, EmEnd, t1)
        t3 == ReSubCmd(CmdEmph, Em, EmEnd, t2)
        t4 == ReSubCmd(CmdTexttt, Code, CodeEnd, t3)
    IN ReSubCmd(CmdUnderline, Underlined, UnderlinedEnd, t4)

\* URLs and hrefs
Links(text) ==
    LET t1 == ReSubUrlCmd(text)
        t2 == ReSubHref(t1)
    IN ReSubUrl(t2)

\* Special characters and escapes
Escapes(text) ==
    LET t1 == ReSub(<<"\\", "%">>, <<"%">>, text)
        t2 == ReSub(<<"\\", "&">>, <<"&">>, t1)
        t3 == ReSub(<<"\\", "$">>, <<"$">>, t2)
        t4 == ReSub(<<"\\", "#">>, <<"#">>, t3)
        t5 == ReSub(<<"\\", "_">>, <<"_">>, t4)
        t6 == ReSub(<<"\\", "{">>, <<"{">>, t5)
        t7 == ReSub(<<"\\", "}">>, <<"}">>, t6)
        t8 == ReSubBackslash(t7)
        t9 == ReSub(<<"\\", "~">>, <<"~">>, t8)
    IN ReSub(<<"\\", "^">>, <<"^">>, t9)

\* LaTeX quotes.  The two statements behind the one for '' are one
\* statement in the source: its replacement text is a triple-quoted
\* literal that ends on the next line, and "'" is not replaced.
Quotes(text) ==
    LET t1 == ReSub(<<Backtick, Backtick>>, <<"\"">>, text)
        t2 == ReSub(<<"'", "'">>, <<"\"">>, t1)
    IN ReSub(<<Backtick>>, BacktickReplacement, t2)

\* Common spacing commands
Spacing(text) ==
    LET t1 == ReSub(<<"\\", ",">>, <<" ">>, text)
        t2 == ReSub(<<"~">>, Nbsp, t1)
    IN ReSub(<<"\\", "\\">>, Br, t2)

process_latex_commands(text) == Spacing(Quotes(Escapes(Links(Formatting(text)))))

\* The function applied to a text, and applied again to what it returned.
\* Texts are rows of at most MaxTokens pieces of LaTeX.
MaxTokens == 3

Tokens ==
    {<<"\\">>, <<"%">>, <<"a">>, <<"}">>, <<"~">>, <<Backtick>>, <<"'">>, <<",">>, <<".">>, <<" ">>,
     CmdTextbf, CmdTextbackslash, CmdUrl, CmdHref \o <<"a", "}", "{">>, Http \o <<"a">>}

RECURSIVE Texts(_)
Texts(n) == IF n = 0 THEN {<<>>} ELSE {<<>>} \cup {k \o t : k \in Tokens, t \in Texts(n - 1)}

InitLatex ==
    /\ InitCorpus
    /\ TagMembers(1) = {}
    /\ now = 0
    /\ pc = "idle"
    /\ request = [user |-> Anon]
    /\ context = NoContext
    /\ \E t \in Texts(MaxTokens) : local = [text |-> t, processed |-> <<>>]
    /\ nn_queries = <<>>
    /\ response = NoResponse
    /\ shown = <<>>

\* paper.title goes through process_latex_commands
process_text ==
    /\ pc = "idle"
    /\ pc' = "done"
    /\ local' = [text |-> local.text, processed |-> process_latex_commands(local.text)]
    /\ UNCHANGED <<db, request, context, nn_queries, response, shown>>

\* the text it returned goes through process_latex_commands
process_again ==
    /\ pc = "done"
    /\ pc' = "again"
    /\ local' = [text |-> local.processed, processed |-> process_latex_commands(local.processed)]
    /\ UNCHANGED <<db, request, context, nn_queries, response, shown>>

NextLatex == process_text \/ process_again

SpecLatex == InitLatex /\ [][NextLatex]_vars

\* C22: the LaTeX normalizer leaves its own output unchanged:
\* process_latex_commands(process_latex_commands(t)) = process_latex_commands(t).
C22_Idempotent == pc = "again" => local.processed = local.text

\* ------------------------------------------- tag management (views_auth.py)
\* Requests of the tag endpoints may interleave: rename_tag reads the tags,
\* then writes.  local holds the id the next Tag row gets and the rename
\* requests between their check and their save.
MaxTagId == 5
MaxInFlight == 2

\* unique_together = ("user", "name"): the row [user, name] under id would
\* be a second row of its user and name
UniqueViolation(id, user, name) ==
    \E t \in DOMAIN Tag \ {id} : Tag[t].user = user /\ Tag[t].name = name

\* The Tag table with the row id set to [user, name] (inserted or updated)
TagWith(id, user, name) ==
    [t \in DOMAIN Tag \cup {id} |-> IF t = id THEN [user |-> user, name |-> name] ELSE Tag[t]]

TagResponse(op, status, conflict, changed) ==
    [op |-> op, status |-> status, conflict |-> conflict, changed |-> changed]

\* add_to_tag with a tag_name: Tag.objects.get_or_create(user, name), then
\* TaggedPaper.objects.get_or_create(tag, paper)
add_to_tag_by_name(user, paper_id, tag_name) ==
    LET name == Strip(tag_name)
        found == TagGet(user, name)
        tag == IF found # {} THEN The(found) ELSE local.next_id
    IN /\ IF paper_id \notin DOMAIN Paper
          THEN /\ response' = TagResponse("add_to_tag", 404, FALSE, FALSE)
               /\ UNCHANGED <<Tag, TaggedPaper, local>>
          ELSE IF name = <<>>
          THEN /\ response' = TagResponse("add_to_tag", 400, FALSE, FALSE)
               /\ UNCHANGED <<Tag, TaggedPaper, local>>
          ELSE /\ found = {} => local.next_id <= MaxTagId
               /\ Tag' = IF found # {} THEN Tag ELSE TagWith(tag, user, name)
               /\ local' = IF found # {} THEN local ELSE [local EXCEPT !.next_id = @ + 1]
               /\ TaggedPaper' = TaggedPaper \cup {[tag |-> tag, paper |-> paper_id]}
               /\ response' = TagResponse("add_to_tag", 200, FALSE, found = {})
       /\ UNCHANGED <<Paper, Embedding, EmbeddingVoyageHalf2048, EmbeddingVoyageHalf256,
                      now, pc, request, context, nn_queries, shown>>

\* rename_tag up to its test for another tag of the name
rename_tag_check(user, tag_id, new_name_raw) ==
    LET new_name == Strip(new_name_raw)
    IN /\ IF new_name = <<>>
          THEN /\ response' = TagResponse("rename_tag", 400, FALSE, FALSE)
               /\ local' = local
          ELSE IF ~(tag_id \in DOMAIN Tag /\ Tag[tag_id].user = user)
          THEN /\ response' = TagResponse("rename_tag", 404, FALSE, FALSE)
               /\ local' = local
          ELSE IF UniqueViolation(tag_id, user, new_name)
          THEN /\ response' = TagResponse("rename_tag", 400, TRUE, FALSE)
               /\ local' = local
          ELSE /\ Cardinality(local.renames) < MaxInFlight
               /\ local' = [local EXCEPT !.renames = @ \cup
                               {[user |-> user, tag_id |-> tag_id, new_name |-> new_name]}]
               /\ response' = response
       /\ UNCHANGED <<db, pc, request, context, nn_queries, shown>>

\* rename_tag from "tag.name = new_name" on.  tag.save() updates the row,
\* or inserts it when the row is gone; the unique constraint makes the
\* statement fail with IntegrityError, which rename_tag does not catch.
rename_tag_save(r) ==
    /\ r \in local.renames
    /\ local' = [local EXCEPT !.renames = @ \ {r}]
    /\ IF UniqueViolation(r.tag_id, r.user, r.new_name)
       THEN /\ response' = TagResponse("rename_tag", 500, TRUE, FALSE)
            /\ Tag' = Tag
       ELSE /\ response' = TagResponse("rename_tag", 200, FALSE,
                                       Tag # TagWith(r.tag_id, r.user, r.new_name))
            /\ Tag' = TagWith(r.tag_id, r.user, r.new_name)
    /\ UNCHANGED <<Paper, TaggedPaper, Embedding, EmbeddingVoyageHalf2048, EmbeddingVoyageHalf256,
                   now, pc, request, context, nn_queries, shown>>

\* delete_tag: the tag and, by CASCADE, its TaggedPaper rows
delete_tag(user, tag_id) ==
    /\ IF tag_id \in DOMAIN Tag /\ Tag[tag_id].user = user
       THEN /\ Tag' = [t \in DOMAIN Tag \ {tag_id} |-> Tag[t]]
            /\ TaggedPaper' = {tp \in TaggedPaper : tp.tag # tag_id}
            /\ response' = TagResponse("delete_tag", 302, FALSE, TRUE)
       ELSE /\ response' = TagResponse("delete_tag", 404, FALSE, FALSE)
            /\ UNCHANGED <<Tag, TaggedPaper>>
    /\ UNCHANGED <<Paper, Embedding, EmbeddingVoyageHalf2048, EmbeddingVoyageHalf256,
                   now, pc, request, context, local, nn_queries, shown>>

InitTags ==
    /\ InitCorpus
    /\ TagMembers(1) = {}
    /\ now = 0
    /\ pc = "idle"
    /\ request = [user |-> Anon]
    /\ context = NoContext
    /\ local = [next_id |-> Len(Tag) + 1, renames |-> {}]
    /\ nn_queries = <<>>
    /\ response = TagResponse("none", 0, FALSE, FALSE)
    /\ shown = <<>>

\* u1 renames its tags 1 ("x") and 4 ("z"), to "y", to " x" and to " "; both
\* users tag a paper by name and delete tags
NextTags ==
    \/ \E user \in Users, paper_id \in {1, NumPapers + 1}, tag_name \in {NameY, <<>>} :
         add_to_tag_by_name(user, paper_id, tag_name)
    \/ \E tag_id \in {1, 2, 4}, new_name \in {NameY, <<" ", "x">>, <<" ">>} :
         rename_tag_check("u1", tag_id, new_name)
    \/ \E r \in local.renames : rename_tag_save(r)
    \/ \E user \in Users, tag_id \in {1, 3, MaxTagId} : delete_tag(user, tag_id)

SpecTags == InitTags /\ [][NextTags]_vars

\* C23: whatever add_to_tag, rename_tag and delete_tag requests were served,
\* interleaved or not, no user owns two tags of one name, and a rename to a
\* name the user has on another tag is answered with the error value
\* (status 400) and changes no tag.
C23_UniqueNames ==
    /\ \A t1, t2 \in DOMAIN Tag :
         t1 # t2 => ~(Tag[t1].user = Tag[t2].user /\ Tag[t1].name = Tag[t2].name)
    /\ (response.op = "rename_tag" /\ response.conflict)
         => (response.status = 400 /\ ~response.changed)

\* ------------------------- the embedding job (add_voyage_embeddings.py)
\* A run of the command selects the papers without a row in
\* EmbeddingVoyageHalf2048, cuts their ids into chunks of batch_size and
\* hands the chunks to its workers.  Runs may overlap.  local holds, per
\* run, the chunks not yet begun, and the batches that are between two of
\* their three bulk_create calls.
MaxRuns == 2
BatchSizes == {2, 3}

\* The ids of a set, ascending: order_by("id")
RECURSIVE Sorted(_)
Sorted(S) == IF S = {} THEN <<>> ELSE LET m == First(S) IN <<m>> \o Sorted(S \ {m})

\* id_chunks = [all_ids[i : i + batch_size] for i in range(0, len(all_ids), batch_size)]
Chunks(all_ids, batch_size) ==
    {SubSeq(all_ids, i, Min(i + batch_size - 1, Len(all_ids))) :
        i \in {k \in 1..Len(all_ids) : (k - 1) % batch_size = 0}}

\* client.embed: the provider's vector of a paper's abstract
Embed(p) == Full(SessionVector(p))

\* Model.objects.bulk_create(objs) on a table whose primary key is the
\* paper: one INSERT, which fails as a whole on a key the table holds
\* (IntegrityError) or on a fault of the datastore
bulk_create(table, objs, fault) ==
    IF fault \/ DOMAIN table \cap DOMAIN objs # {} THEN [ok |-> FALSE, table |-> table]
    ELSE [ok |-> TRUE,
          table |-> [p \in DOMAIN table \cup DOMAIN objs |->
                        IF p \in DOMAIN table THEN table[p] ELSE objs[p]]]

\* What is known of a batch when it has ended: its papers, those of them
\* that had no row in any of the three tables when it began, and whether
\* the provider or the datastore failed under it
BatchEnd(b, stage, fault, ok) ==
    [op |-> "batch", run |-> b.run, ids |-> b.ids, fresh |-> b.fresh, stage |-> stage,
     fault |-> fault, ok |-> ok]

\* Command.handle up to the submission of the chunks
handle(run, batch_size) ==
    /\ run = local.runs + 1
    /\ run <= MaxRuns
    /\ LET all_ids == Sorted(DOMAIN Paper \ DOMAIN EmbeddingVoyageHalf2048)
       IN local' = [local EXCEPT !.runs = run,
                                 !.chunks = @ \cup {[run |-> run, ids |-> c] :
                                                      c \in Chunks(all_ids, batch_size)}]
    /\ UNCHANGED <<db, pc, request, context, nn_queries, response, shown>>

\* process_batch_by_ids up to the first bulk_create (or to the except
\* clause): the batch is read, the provider called, EmbeddingVoyageHalf2048 written
process_batch_by_ids(c, fault) ==
    /\ c \in local.chunks
    /\ LET ids == Range(c.ids) \cap DOMAIN Paper
           b == [run |-> c.run, ids |-> ids, stage |-> 2,
                 fresh |-> ids \ (DOMAIN EmbeddingVoyageHalf2048
                                    \cup DOMAIN EmbeddingVoyageHalf256 \cup DOMAIN Embedding)]
           w == bulk_create(EmbeddingVoyageHalf2048, [p \in ids |-> Half2048Row(Embed(p))], fault)
       IN /\ EmbeddingVoyageHalf2048' = w.table
          /\ local' = [local EXCEPT !.chunks = @ \ {c},
                                    !.batches = IF w.ok THEN @ \cup {b} ELSE @]
          /\ response' = IF w.ok THEN response ELSE BatchEnd(b, 1, fault, FALSE)
    /\ UNCHANGED <<Paper, Tag, TaggedPaper, Embedding, EmbeddingVoyageHalf256, now, pc, request,
                   context, nn_queries, shown>>

\* EmbeddingVoyageHalf256.objects.bulk_create, then EmbeddingVoyageBit2048's
\* as the next step of the batch
bulk_create_256(b, fault) ==
    /\ b \in local.batches
    /\ b.stage = 2
    /\ LET w == bulk_create(EmbeddingVoyageHalf256, [p \in b.ids |-> Half256Row(Embed(p))], fault)
       IN /\ EmbeddingVoyageHalf256' = w.table
          /\ local' = [local EXCEPT !.batches =
                          (@ \ {b}) \cup (IF w.ok THEN {[b EXCEPT !.stage = 3]} ELSE {})]
          /\ response' = IF w.ok THEN response ELSE BatchEnd(b, 2, fault, FALSE)
    /\ UNCHANGED <<Paper, Tag, TaggedPaper, Embedding, EmbeddingVoyageHalf2048, now, pc, request,
                   context, nn_queries, shown>>

\* EmbeddingVoyageBit2048.objects.bulk_create and the end of the batch
bulk_create_bit2048(b, fault) ==
    /\ b \in local.batches
    /\ b.stage = 3
    /\ LET w == bulk_create(Embedding, [p \in b.ids |-> Bit2048Row(Embed(p))], fault)
       IN /\ Embedding' = w.table
          /\ local' = [local EXCEPT !.batches = @ \ {b}]
          /\ response' = BatchEnd(b, 3, fault, w.ok)
    /\ UNCHANGED <<Paper, Tag, TaggedPaper, EmbeddingVoyageHalf2048, EmbeddingVoyageHalf256, now,
                   pc, request, context, nn_queries, shown>>

\* NumPapers papers, the first with its three rows
InitEmbed ==
    /\ Paper = [p \in PaperIds |->
                  [arxiv_id |-> ArxivId(p), created |-> 0, title |-> <<"b">>,
                   abstract |-> <<"c">>, categories |-> {"cs"}]]
    /\ Embedding = [p \in {1} |-> Bit2048Row(Embed(p))]
    /\ VoyageTables
    /\ Tag = <<>>
    /\ TaggedPaper = {}
    /\ now = 0
    /\ pc = "idle"
    /\ request = [user |-> Anon]
    /\ context = NoContext
    /\ local = [runs |-> 0, chunks |-> {}, batches |-> {}]
    /\ nn_queries = <<>>
    /\ response = [op |-> "none"]
    /\ shown = <<>>

NextEmbed ==
    \/ \E run \in 1..MaxRuns, batch_size \in BatchSizes : handle(run, batch_size)
    \/ \E c \in local.chunks, fault \in BOOLEAN : process_batch_by_ids(c, fault)
    \/ \E b \in local.batches, fault \in BOOLEAN : bulk_create_256(b, fault)
    \/ \E b \in local.batches, fault \in BOOLEAN : bulk_create_bit2048(b, fault)

SpecEmbed == InitEmbed /\ [][NextEmbed]_vars

\* C24: a batch run over papers of which some have an embedding row already
\* (a re-run, overlapping runs) makes no duplicate row, leaves the rows that
\* exist as they are, and still writes the rows of its papers that had
\* none: when it ends without a fault of the provider or the datastore,
\* each of its papers has its row in the three tables, each row being the
\* one derived from the paper's embedding.
C24_IdempotentWrites ==
    /\ \A p \in DOMAIN EmbeddingVoyageHalf2048 : EmbeddingVoyageHalf2048[p] = Half2048Row(Embed(p))
    /\ \A p \in DOMAIN EmbeddingVoyageHalf256 : EmbeddingVoyageHalf256[p] = Half256Row(Embed(p))
    /\ \A p \in DOMAIN Embedding : Embedding[p] = Bit2048Row(Embed(p))
    /\ (response.op = "batch" /\ ~response.fault)
         => \A p \in response.fresh :
              /\ p \in DOMAIN EmbeddingVoyageHalf2048
              /\ p \in DOMAIN EmbeddingVoyageHalf256
              /\ p \in DOMAIN Embedding

\* No run is under way and a new run would select no paper
JobExhausted ==
    /\ local.runs > 0
    /\ local.chunks = {}
    /\ local.batches = {}
    /\ DOMAIN Paper \ DOMAIN EmbeddingVoyageHalf2048 = {}

\* C29: when the job has been run until it selects no paper, every paper has
\* its row in the three Voyage tables, the bit-vector table that retrieval
\* reads among them, also if a write failed in some run.
C29_AllTablesFilled ==
    JobExhausted =>
        /\ DOMAIN Embedding = DOMAIN Paper
        /\ DOMAIN EmbeddingVoyageHalf256 = DOMAIN Paper

\* =================================================== claims, SpecTag (2)
\* tag_search is in its loop, behind it, or has returned
InTagSearch == pc \in {"tag_search", "tag_merge"} \/ TagSearchDone

\* len(tagged_papers): the number of source papers of the searched tag
NumSources == Cardinality(TagMembers(The(context.parsed_tag_for_search)))

NewQueries == SubSeq(nn_queries', Len(nn_queries) + 1, Len(nn_queries'))

\* C26: the time budget is looked at once per source, at the head of the
\* iteration.  When a check finds it exceeded, the fetch of that iteration
\* and of every later one has depth N; the fetches made before stay as
\* they are; each iteration takes the next source, so that the loop ends
\* after at most one fetch per source whatever the clock says.
C26_BudgetAtIterationBoundaries ==
    [][pc = "tag_search" =>
         /\ local.i < Len(local.tagged_papers)
         /\ local'.i = local.i + 1
         /\ local'.tagged_papers = local.tagged_papers
         /\ SubSeq(nn_queries', 1, Len(nn_queries)) = nn_queries
         /\ Len(NewQueries) <= 1
         /\ \A n \in 1..Len(NewQueries) :
              /\ NewQueries[n].source = local.tagged_papers[local.i + 1]
              /\ NewQueries[n].source \notin Queried
         /\ (tag_search_loop(TRUE) \/ local.res_per_source = RESULTS_PER_PAGE) =>
              /\ local'.res_per_source = RESULTS_PER_PAGE
              /\ \A n \in 1..Len(NewQueries) : NewQueries[n].depth = RESULTS_PER_PAGE]_vars

\* A finished tag search whose first fetch had depth k, k # N, and whose
\* second and third fetch had depth N
C26_Witness ==
    /\ TagSearchDone
    /\ Len(nn_queries) >= 3
    /\ nn_queries[1].depth # RESULTS_PER_PAGE
    /\ nn_queries[2].depth = RESULTS_PER_PAGE
    /\ nn_queries[3].depth = RESULTS_PER_PAGE

\* The ids the client sent with the request: parse_search_request reads
\* exclude_ids from the body of an AJAX POST only
SentIds == IF request.ajax THEN request.exclude_ids ELSE {}

\* C27: building the candidate predicate leaves exclude_ids as the client
\* sent it: after a search that returned a page, context["exclude_ids"]
\* holds exactly the sent ids, and has_more is computed from their number
\* alone, whatever the drawer tag holds and whichever paper is the source.
C27_ExcludeIdsUnchanged ==
    (pc = "done" /\ response.status = 200) =>
        /\ context.exclude_ids = SentIds
        /\ response.has_more = HasMore(response.papers, SentIds)

(***************************************************************************)
(* Claims checked under SpecTag (3)                                        *)
(***************************************************************************)

RestartDays == 7

\* The clock of the model stops at this day
MaxNow == 8

\* The request URL, as its query parameters: from=<date> and
\* resumptionToken=<token>, both optional
Url(from, token) == [from |-> from, resumptionToken |-> token]

\* The locals of handle before the loop's first iteration is decided
\* (total = 0, url without from, last_date = None)
HarvestLocals == [url |-> Url(None, None), last_date |-> None, total |-> 0]

\* Paper.objects.aggregate(Max("created"))
MaxCreated == CHOOSE m \in {Paper[p].created : p \in DOMAIN Paper} :
                  \A p \in DOMAIN Paper : Paper[p].created <= m

\* An arXiv record of the feed; updated is optional
Record(p, created, updated) ==
    [arxiv_id |-> ArxivId(p), created |-> created, updated |-> updated,
     title |-> <<"b">>, abstract |-> <<"c">>, categories |-> {"cs"}]

\* The records the server may send: two papers the database lacks, both
\* created long ago, one of them updated yesterday, and a paper the
\* database holds
FeedRecords ==
    {Record(NumPapers + 1, 0 - (RestartDays + 3), None),
     Record(NumPapers + 2, 0 - (RestartDays + 3), Some(0 - 1)),
     Record(1, 0, None)}

\* What requests.get and the parsing give: a page of records with or
\* without a resumption token, or an exception raised inside the try block
\* (no connection, no XML, no ListRecords element, a single record that
\* xmltodict does not wrap in a list)
ServerResponses ==
    {[kind |-> "error"]}
      \cup {[kind |-> "page", records |-> <<a, b>>, token |-> t] :
              a \in FeedRecords, b \in FeedRecords, t \in {None, Some(<<"t">>)}}

\* "last_date is not None and last_date < datetime.now() - timedelta(days=7)"
Stale(last_date) == last_date # None /\ The(last_date) < now - RestartDays

\* The row save_paper creates for a record
PaperRow(data) ==
    [arxiv_id |-> data.arxiv_id, created |-> data.created, title |-> data.title,
     abstract |-> data.abstract, categories |-> data.categories]

\* The body of "for item in ...[record]" from item n on: the table, the
\* last date and the total after the page
RECURSIVE HarvestItems(_, _, _, _, _)
HarvestItems(records, n, table, last_date, total) ==
    IF n > Len(records) THEN [table |-> table, last_date |-> last_date, total |-> total]
    ELSE LET arxiv_data == records[n]
             created == \A p \in DOMAIN table : table[p].arxiv_id # arxiv_data.arxiv_id
             last_updated_date == IF arxiv_data.updated = None
                                  THEN arxiv_data.created
                                  ELSE The(arxiv_data.updated)
         IN HarvestItems(records, n + 1,
                         IF created THEN Append(table, PaperRow(arxiv_data)) ELSE table,
                         IF last_date = None \/ last_updated_date > The(last_date)
                         THEN Some(last_updated_date) ELSE last_date,
                         IF created THEN total + 1 ELSE total)

\* "Restarting from {last_date}": the loop goes on with from=<last_date>,
\* or it is left
Restart(last_date, total) ==
    IF Stale(last_date)
    THEN /\ local' = [url |-> Url(last_date, None), last_date |-> last_date, total |-> total]
         /\ pc' = "harvest"
    ELSE /\ local' = [url |-> local.url, last_date |-> last_date, total |-> total]
         /\ pc' = "harvested"

\* handle up to the loop: recent is options["recent_only"]
harvest_start(recent) ==
    /\ pc = "idle"
    /\ local' = IF recent
                THEN [url |-> Url(Some(MaxCreated), None), last_date |-> Some(MaxCreated),
                      total |-> 0]
                ELSE HarvestLocals
    /\ pc' = "harvest"
    /\ UNCHANGED <<db, request, context, nn_queries, response, shown>>

\* response = requests.get(url): the server's answer arrives
harvest_get(answer) ==
    /\ pc = "harvest"
    /\ response' = answer
    /\ pc' = "response"
    /\ UNCHANGED <<db, request, context, local, nn_queries, shown>>

\* The try block for a page: the records are saved, then the resumption
\* token decides
harvest_page ==
    /\ pc = "response"
    /\ response.kind = "page"
    /\ LET after == HarvestItems(response.records, 1, Paper, local.last_date, local.total)
       IN /\ Paper' = after.table
          /\ IF response.token = None
             THEN Restart(after.last_date, after.total)
             ELSE /\ local' = [url |-> Url(None, response.token),
                               last_date |-> after.last_date, total |-> after.total]
                  /\ pc' = "harvest"
    /\ UNCHANGED <<Tag, TaggedPaper, Embedding, EmbeddingVoyageHalf2048,
                   EmbeddingVoyageHalf256, now, request, context, nn_queries, response,
                   shown>>

\* The except block
harvest_error ==
    /\ pc = "response"
    /\ response.kind = "error"
    /\ Restart(local.last_date, local.total)
    /\ UNCHANGED <<db, request, context, nn_queries, response, shown>>

\* A day passes while the command runs
harvest_tick ==
    /\ pc \in {"harvest", "response"}
    /\ now < MaxNow
    /\ now' = now + 1
    /\ UNCHANGED <<Paper, Tag, TaggedPaper, Embedding, EmbeddingVoyageHalf2048,
                   EmbeddingVoyageHalf256, pc, request, context, local, nn_queries,
                   response, shown>>

InitHarvest ==
    /\ InitCorpus
    /\ TagMembers(1) = {}
    /\ now = 0
    /\ pc = "idle"
    /\ request = [user |-> Anon, ajax |-> FALSE, q |-> <<>>, date_filter |-> "",
                  category |-> "", tag |-> None, single_paper |-> None,
                  search_all |-> None, exclude_ids |-> {}]
    /\ context = NoContext
    /\ local = HarvestLocals
    /\ nn_queries = <<>>
    /\ response = NoResponse
    /\ shown = <<>>

HarvestLoop ==
    \/ \E answer \in ServerResponses : harvest_get(answer)
    \/ harvest_page
    \/ harvest_error

NextHarvest ==
    \/ \E recent \in BOOLEAN : harvest_start(recent)
    \/ HarvestLoop
    \/ harvest_tick

\* The process runs on: an iteration that can be taken is taken.  Nothing
\* is assumed of the server or of the clock.
SpecHarvest == InitHarvest /\ [][NextHarvest]_vars /\ WF_vars(HarvestLoop)

\* C30: the harvest loop terminates: for every sequence of server
\* responses the command eventually leaves the loop and reports the number
\* of harvested records, also when the newest date seen is more than 7
\* days old.
C30_HarvestTerminates == <>(pc = "harvested")

=============================================================================
